---- MODULE Spec2Model ----
(***************************************************************************)
(* Cart service of SinaVosooghi/ecommerce: the cart domain model, the      *)
(* repository, the cart service that orchestrates them under concurrent    *)
(* requests, and the idempotency middleware.                               *)
(*                                                                         *)
(* Time is counted in whole days.  uuid.New() gives an id in use nowhere.  *)
(* Every repository call is one atomic step (the in-memory                 *)
(* repository holds its mutex for the whole call, a DynamoDB PutItem /     *)
(* GetItem / DeleteItem is a single-row operation); the local computation  *)
(* that follows a call up to the next call belongs to the same step.       *)
(***************************************************************************)
EXTENDS Integers, Sequences, FiniteSets, TLC

\* ------------------------------------------------------------------------
\* Bounds of the model
\* ------------------------------------------------------------------------
\* calls started in a run of the service specifications
MaxOps == 2

\* calls started in a run of the race specification
MaxRaceOps == 4

\* calls that may start on the carts at the limits
MaxFullOps == 2

\* calls of the domain functions on the carts in memory
MaxDomainOps == 2

\* calls that may start in the specification of logins
MaxMergeOps == 3

\* calls started in a run of the repository specification
MaxRepoOps == 3

\* largest version of a cart handed to the repository
MaxVersion == 3

\* requests started in a run of the middleware specification
MaxIdemOps == 2

\* the clock of the middleware specification stops here
MaxIdemTime == 2

\* requests that may start in the specification of overlapping requests
MaxOverlapOps == 3

MaxTime == 8
MaxScopeOps == 3        \* requests with an Idempotency-Key in one behaviour
MaxCapOps == 2          \* domain calls around a merge at the item limit in one behaviour
MaxRejectOps == 2       \* domain calls on a cart at its limits in one behaviour
MaxRetryCalls == 2      \* calls of Retry in one behaviour
MaxHooks == 3           \* shutdown hooks registered in one behaviour
MaxShutdowns == 2       \* calls of Application.Shutdown in one behaviour
MaxMemObjects == 4      \* cart objects allocated in one behaviour
MaxMemNew == 1          \* cart objects the caller builds itself in one behaviour
MaxMemItems == 2        \* items a caller puts into one cart object
MaxMemVersion == 2      \* largest version a caller writes into a cart object
MaxMemWrites == 2       \* writes of the caller to cart objects in one behaviour
MaxRetryAttempts == 3   \* largest maxAttempts handed to WithRetry
MaxBulkheadCalls == 4   \* calls of Bulkhead.Execute in one behaviour
MaxConcurrentCap == 2   \* largest MaxConcurrent a bulkhead is created with
MaxWaitingCap == 3      \* largest MaxWaiting a bulkhead is created with
Callers == {1, 2, 3}    \* goroutines that call into the resilience layer
MaxBreakerCalls == 11   \* calls of CircuitBreaker.Execute in one behaviour
BreakerCallers == {1, 2}

Procs == {1, 2}

Users == {"u1", "g1"}

\* ------------------------------------------------------------------------
\* Domain: internal/core/cart/cart.go
\* ------------------------------------------------------------------------
MaxItemsPerCart == 100

MaxQuantityPerItem == 99

MinQuantityPerItem == 1

CartExpirationDays == 7

NilCart ==
  [id |-> 0, userID |-> "", items |-> <<>>, version |-> 0,
   createdAt |-> 0, updatedAt |-> 0, expiresAt |-> 0]

NewCart(userID, uuid, t) ==
  [id |-> uuid, userID |-> userID, items |-> <<>>, version |-> 1,
   createdAt |-> t, updatedAt |-> t, expiresAt |-> t + CartExpirationDays]

NewCartItem(productID, quantity, unitPrice, uuid, t) ==
  [itemID |-> uuid, productID |-> productID, quantity |-> quantity,
   unitPrice |-> unitPrice, addedAt |-> t]

IsExpired(c, t) == t > c.expiresAt

\* index of the first item with this item id, 0 when there is none
FindItem(items, itemID) ==
  IF \E i \in 1..Len(items) : items[i].itemID = itemID
  THEN CHOOSE i \in 1..Len(items) :
         /\ items[i].itemID = itemID
         /\ \A j \in 1..(i - 1) : items[j].itemID # itemID
  ELSE 0

\* a search that finds no product
FindItemByProductIDNone(items, productID) == 0

\* index of the first item with this product id, 0 when there is none
FindItemByProductID(items, productID) ==
  IF \E i \in 1..Len(items) : items[i].productID = productID
  THEN CHOOSE i \in 1..Len(items) :
         /\ items[i].productID = productID
         /\ \A j \in 1..(i - 1) : items[j].productID # productID
  ELSE 0

\* a validation that forgets the upper limit
ValidateQuantityNoMax(quantity) ==
  IF quantity < MinQuantityPerItem THEN "INVALID_QUANTITY" ELSE "OK"

ValidateQuantity(quantity) ==
  IF quantity < MinQuantityPerItem THEN "INVALID_QUANTITY"
  ELSE IF quantity > MaxQuantityPerItem THEN "QUANTITY_LIMIT_EXCEEDED"
  ELSE "OK"

\* an AddItem whose limit check lets one item too many in
CartAddItemOneMore(c, item, t) ==
  LET v   == ValidateQuantity(item.quantity)
      idx == FindItemByProductID(c.items, item.productID)
  IN IF v # "OK" THEN [err |-> v, cart |-> c]
     ELSE IF idx # 0
     THEN LET newQuantity == c.items[idx].quantity + item.quantity
          IN IF newQuantity > MaxQuantityPerItem
             THEN [err |-> "QUANTITY_LIMIT_EXCEEDED", cart |-> c]
             ELSE [err |-> "OK",
                   cart |-> [c EXCEPT !.items[idx].quantity = newQuantity,
                                      !.items[idx].unitPrice = item.unitPrice,
                                      !.updatedAt = t]]
     ELSE IF Len(c.items) > MaxItemsPerCart
     THEN [err |-> "CART_LIMIT_EXCEEDED", cart |-> c]
     ELSE [err |-> "OK",
           cart |-> [c EXCEPT !.items = Append(c.items, item), !.updatedAt = t]]

\* an AddItem that keeps the price of the item it finds
CartAddItemKeepPrice(c, item, t) ==
  LET v   == ValidateQuantity(item.quantity)
      idx == FindItemByProductID(c.items, item.productID)
  IN IF v # "OK" THEN [err |-> v, cart |-> c]
     ELSE IF idx # 0
     THEN LET newQuantity == c.items[idx].quantity + item.quantity
          IN IF newQuantity > MaxQuantityPerItem
             THEN [err |-> "QUANTITY_LIMIT_EXCEEDED", cart |-> c]
             ELSE [err |-> "OK",
                   cart |-> [c EXCEPT !.items[idx].quantity = newQuantity,
                                      !.updatedAt = t]]
     ELSE IF Len(c.items) >= MaxItemsPerCart
     THEN [err |-> "CART_LIMIT_EXCEEDED", cart |-> c]
     ELSE [err |-> "OK",
           cart |-> [c EXCEPT !.items = Append(c.items, item), !.updatedAt = t]]

\* an AddItem that writes the new price before it checks the new quantity
CartAddItemPriceFirst(c, item, t) ==
  LET v   == ValidateQuantity(item.quantity)
      idx == FindItemByProductID(c.items, item.productID)
  IN IF v # "OK" THEN [err |-> v, cart |-> c]
     ELSE IF idx # 0
     THEN LET newQuantity == c.items[idx].quantity + item.quantity
              priced == [c EXCEPT !.items[idx].unitPrice = item.unitPrice]
          IN IF newQuantity > MaxQuantityPerItem
             THEN [err |-> "QUANTITY_LIMIT_EXCEEDED", cart |-> priced]
             ELSE [err |-> "OK",
                   cart |-> [priced EXCEPT !.items[idx].quantity = newQuantity,
                                           !.updatedAt = t]]
     ELSE IF Len(c.items) >= MaxItemsPerCart
     THEN [err |-> "CART_LIMIT_EXCEEDED", cart |-> c]
     ELSE [err |-> "OK",
           cart |-> [c EXCEPT !.items = Append(c.items, item), !.updatedAt = t]]

\* Cart.AddItem: the error code and the cart afterwards
CartAddItem(c, item, t) ==
  LET v   == ValidateQuantity(item.quantity)
      idx == FindItemByProductID(c.items, item.productID)
  IN IF v # "OK" THEN [err |-> v, cart |-> c]
     ELSE IF idx # 0
     THEN LET newQuantity == c.items[idx].quantity + item.quantity
          IN IF newQuantity > MaxQuantityPerItem
             THEN [err |-> "QUANTITY_LIMIT_EXCEEDED", cart |-> c]
             ELSE [err |-> "OK",
                   cart |-> [c EXCEPT !.items[idx].quantity = newQuantity,
                                      !.items[idx].unitPrice = item.unitPrice,
                                      !.updatedAt = t]]
     ELSE IF Len(c.items) >= MaxItemsPerCart
     THEN [err |-> "CART_LIMIT_EXCEEDED", cart |-> c]
     ELSE [err |-> "OK",
           cart |-> [c EXCEPT !.items = Append(c.items, item), !.updatedAt = t]]

\* Cart.RemoveItem: the last item takes the place of the removed one
CartRemoveItem(c, itemID, t) ==
  LET idx == FindItem(c.items, itemID)
      n   == Len(c.items)
  IN IF idx = 0 THEN [err |-> "ITEM_NOT_FOUND", cart |-> c]
     ELSE [err |-> "OK",
           cart |-> [c EXCEPT !.items = [i \in 1..(n - 1) |->
                                           IF i = idx THEN c.items[n] ELSE c.items[i]],
                              !.updatedAt = t]]

CartUpdateItemQuantity(c, itemID, quantity, t) ==
  LET v   == ValidateQuantity(quantity)
      idx == FindItem(c.items, itemID)
  IN IF v # "OK" THEN [err |-> v, cart |-> c]
     ELSE IF idx = 0 THEN [err |-> "ITEM_NOT_FOUND", cart |-> c]
     ELSE [err |-> "OK",
           cart |-> [c EXCEPT !.items[idx].quantity = quantity, !.updatedAt = t]]

\* a Clear that leaves the items in the cart
CartClearNothing(c, t) == [c EXCEPT !.updatedAt = t]

CartClear(c, t) == [c EXCEPT !.items = <<>>, !.updatedAt = t]

\* a version counter that stands still
IncrementVersionStuck(c, t) == [c EXCEPT !.updatedAt = t]

IncrementVersion(c, t) == [c EXCEPT !.version = c.version + 1, !.updatedAt = t]

ExtendExpiration(c, t) ==
  [c EXCEPT !.expiresAt = t + CartExpirationDays, !.updatedAt = t]

\* a merge that adds the quantities of a product both carts hold
RECURSIVE MergeItemsSum(_, _, _)
MergeItemsSum(userItems, guestItems, i) ==
  IF i > Len(guestItems) THEN userItems
  ELSE LET guestItem == guestItems[i]
           idx       == FindItemByProductID(userItems, guestItem.productID)
       IN IF idx # 0
          THEN MergeItemsSum([userItems EXCEPT
                                ![idx].quantity = @ + guestItem.quantity],
                             guestItems, i + 1)
          ELSE IF Len(userItems) < MaxItemsPerCart
               THEN MergeItemsSum(Append(userItems, guestItem), guestItems, i + 1)
               ELSE MergeItemsSum(userItems, guestItems, i + 1)

\* a merge that appends whatever the size of the cart
RECURSIVE MergeItemsNoCap(_, _, _)
MergeItemsNoCap(userItems, guestItems, i) ==
  IF i > Len(guestItems) THEN userItems
  ELSE LET guestItem == guestItems[i]
           idx       == FindItemByProductID(userItems, guestItem.productID)
       IN IF idx # 0
          THEN IF guestItem.quantity > userItems[idx].quantity
               THEN MergeItemsNoCap([userItems EXCEPT ![idx].quantity = guestItem.quantity],
                                    guestItems, i + 1)
               ELSE MergeItemsNoCap(userItems, guestItems, i + 1)
          ELSE MergeItemsNoCap(Append(userItems, guestItem), guestItems, i + 1)

\* the loop of MergeCarts over the guest items from index i on
RECURSIVE MergeItems(_, _, _)
MergeItems(userItems, guestItems, i) ==
  IF i > Len(guestItems) THEN userItems
  ELSE LET guestItem == guestItems[i]
           idx       == FindItemByProductID(userItems, guestItem.productID)
       IN IF idx # 0
          THEN IF guestItem.quantity > userItems[idx].quantity
               THEN MergeItems([userItems EXCEPT ![idx].quantity = guestItem.quantity],
                               guestItems, i + 1)
               ELSE MergeItems(userItems, guestItems, i + 1)
          ELSE IF Len(userItems) < MaxItemsPerCart
               THEN MergeItems(Append(userItems, guestItem), guestItems, i + 1)
               ELSE MergeItems(userItems, guestItems, i + 1)

\* MergeCarts; NilCart stands for a nil pointer
MergeCarts(userCart, guestCart, t) ==
  IF userCart = NilCart
  THEN IF guestCart # NilCart THEN [guestCart EXCEPT !.updatedAt = t] ELSE guestCart
  ELSE IF guestCart = NilCart THEN userCart
  ELSE [userCart EXCEPT !.items = MergeItems(userCart.items, guestCart.items, 1),
                        !.updatedAt = t]

\* ------------------------------------------------------------------------
\* State
\* ------------------------------------------------------------------------
VARIABLES
  store,       \* Repository.carts: user id -> stored cart, rows that exist
  now,         \* time.Now(), in days
  proc,        \* the call each goroutine is serving, and its locals
  ret,         \* the call that returned in the last step, with its result
  opsStarted,  \* number of service calls started so far
  written,     \* history: <<user, version>> of every row written
  lastWrite,   \* the write of the last step: versions of the row replaced and written
  adapter,     \* the repository in use: "inmemory" or "dynamodb"
  idemRecords, \* InMemoryIdempotencyStore.records: scoped key -> stored record
  idemDone,    \* history: <<user, key>> -> time of the last 2xx response stored
  idemLast,    \* history: scoped key -> status of the last POST or PATCH
               \* with that key that completed
  retry,       \* resilience.Retry: the locals of the call in progress
  bulkheads,   \* BulkheadManager.bulkheads: name -> Bulkhead
  callers,     \* the Execute call of each goroutine, and its position
  breaker,     \* the gobreaker.CircuitBreaker behind one CircuitBreaker
  mem,         \* inmemory.Repository and the cart objects on the heap
  app          \* app.Application: its shutdown hooks and the Shutdown in progress

\* the state of the cart service, its repositories and its middleware
cartVars == <<store, now, proc, ret, opsStarted, written, lastWrite,
              adapter, idemRecords, idemDone, idemLast>>

\* the state of the components outside the request path
aux == <<retry, bulkheads, callers, breaker, mem, app>>

vars == <<store, now, proc, ret, opsStarted, written, lastWrite,
          adapter, idemRecords, idemDone, idemLast, aux>>

\* ------------------------------------------------------------------------
\* Retry: internal/resilience (retry.go)
\* ------------------------------------------------------------------------
\* durations are in milliseconds
DefaultRetryConfig ==
  [MaxAttempts |-> 3, InitialDelay |-> 100, MaxDelay |-> 5000, Multiplier |-> 2,
   Jitter |-> TRUE, RetryableFunc |-> "default"]

\* a predicate that takes every error for retryable
RetryableFuncAll(f, err) == TRUE

\* cfg.RetryableFunc(err): that of DefaultRetryConfig is err != nil; a caller
\* may set one that leaves CONFLICT to the layer above
RetryableFunc(f, err) ==
  IF f = "default" THEN err # "nil" ELSE err \notin {"nil", "CONFLICT"}

\* no call of Retry in progress
IdleRetry ==
  [pc |-> "idle", cfg |-> DefaultRetryConfig, attempt |-> 0, delay |-> 0,
   waitTime |-> 0, lastErr |-> "nil", res |-> "none",
   cancelled |-> FALSE,  \* ctx.Err() != nil
   cancelledAt |-> 0,    \* history: invocations of fn made when ctx was cancelled
   calls |-> <<>>,       \* history: what fn returned, invocation by invocation
   started |-> 0]        \* history: calls of Retry so far

\* a goroutine outside Execute
IdleCaller ==
  [pc |-> "idle", fn |-> "none", name |-> "", cancelled |-> FALSE, err |-> "none",
   generation |-> 0,    \* the breaker's generation when the call was admitted
   invoked |-> FALSE,   \* history: the wrapped function was invoked
   admittedIn |-> "none"] \* history: the breaker's state when Execute was entered

\* circuit_breaker.go: DefaultCircuitBreakerConfig, durations left out
DefaultCircuitBreakerConfig ==
  [MaxRequests |-> 3, FailureThreshold |-> 5, SuccessThreshold |-> 3,
   FailureRatio |-> [num |-> 6, den |-> 10]]     \* 0.6

\* gobreaker.Counts after clear()
NoCounts ==
  [Requests |-> 0, TotalSuccesses |-> 0, TotalFailures |-> 0,
   ConsecutiveSuccesses |-> 0, ConsecutiveFailures |-> 0]

NoEvent == [kind |-> "none", from |-> "closed", to |-> "closed", counts |-> NoCounts]

\* NewCircuitBreaker(DefaultCircuitBreakerConfig(name)): closed, nothing counted
NewCircuitBreaker(cfg) ==
  [cfg |-> cfg, state |-> "closed", generation |-> 0, counts |-> NoCounts,
   calls |-> 0,         \* history: calls of Execute so far
   tripCounts |-> NoCounts, \* history: the counts that opened the breaker last
   last |-> NoEvent]    \* history: the last step of the breaker, with the counts
                        \* ReadyToTrip was given if it was a failure

NoGet == [found |-> FALSE, user |-> "", value |-> <<>>]

\* inmemory.NewRepository(): no carts; nothing on the heap yet
NewRepository ==
  [carts |-> <<>>,      \* Repository.carts: user id -> address of the stored object
   objs |-> <<>>,       \* heap: address -> cart.Cart, its Items a slice header
   arrays |-> <<>>,     \* heap: address -> backing array of a slice, cap elements
   refs |-> {},         \* addresses of the cart objects the caller holds
   saved |-> <<>>,      \* history: user id -> the cart value that was saved last
   writes |-> 0,        \* history: writes of the caller to cart objects so far
   news |-> 0,          \* history: cart objects the caller built itself so far
   lastGet |-> NoGet]   \* the value GetCart returned, if the last step was GetCart

\* app.New: no shutdown hooks registered, no Shutdown in progress
NewApplication ==
  [shutdownFuncs |-> <<>>,
   pc |-> "idle", funcs |-> <<>>, i |-> 0, firstErr |-> "nil", res |-> "none",
   invoked |-> <<>>,    \* history: the hooks the Shutdown in progress has invoked
   shutdowns |-> 0]     \* history: calls of Shutdown so far

InitAux ==
  /\ retry = IdleRetry
  /\ app = NewApplication
  /\ mem = NewRepository
  /\ breaker = NewCircuitBreaker(DefaultCircuitBreakerConfig)
  /\ bulkheads = <<>>
  /\ callers = [c \in Callers |-> IdleCaller]

\* ------------------------------------------------------------------------
\* Repository: internal/persistence/inmemory/repository.go
\* ------------------------------------------------------------------------
copyCart(c) ==
  [id |-> c.id, userID |-> c.userID,
   items |-> [i \in 1..Len(c.items) |-> c.items[i]],
   version |-> c.version, createdAt |-> c.createdAt,
   updatedAt |-> c.updatedAt, expiresAt |-> c.expiresAt]

\* r.carts[c.UserID] = copyCart(c)
PutRow(s, c) ==
  [x \in (DOMAIN s) \cup {c.userID} |-> IF x = c.userID THEN copyCart(c) ELSE s[x]]

RepoGetCart(s, userID) ==
  IF userID \notin DOMAIN s
  THEN [err |-> "CART_NOT_FOUND", cart |-> NilCart]
  ELSE [err |-> "OK", cart |-> copyCart(s[userID])]

RepoSaveCart(s, c) == [err |-> "OK", expected |-> 0, current |-> 0, store |-> PutRow(s, c)]

\* a conditional save that lets a caller ahead of the stored version through
RepoSaveCartWithVersionAhead(s, c, expectedVersion) ==
  IF c.userID \in DOMAIN s /\ s[c.userID].version > expectedVersion
  THEN [err |-> "CONFLICT", expected |-> expectedVersion,
        current |-> s[c.userID].version, store |-> s]
  ELSE [err |-> "OK", expected |-> 0, current |-> 0, store |-> PutRow(s, c)]

RepoSaveCartWithVersion(s, c, expectedVersion) ==
  IF c.userID \in DOMAIN s /\ s[c.userID].version # expectedVersion
  THEN [err |-> "CONFLICT", expected |-> expectedVersion,
        current |-> s[c.userID].version, store |-> s]
  ELSE [err |-> "OK", expected |-> 0, current |-> 0, store |-> PutRow(s, c)]

RepoDeleteCart(s, userID) ==
  IF userID \notin DOMAIN s
  THEN [err |-> "CART_NOT_FOUND", store |-> s]
  ELSE [err |-> "OK", store |-> [x \in (DOMAIN s) \ {userID} |-> s[x]]]

\* ------------------------------------------------------------------------
\* Requests in flight: internal/core/cart (service)
\* ------------------------------------------------------------------------
\* config.PublishEvents && publisher != nil
PublishEvents == TRUE

NoResult == [code |-> "NONE", expected |-> 0, current |-> 0, cart |-> NilCart]

Success(c) == [code |-> "OK", expected |-> 0, current |-> 0, cart |-> c]

Failure(code) == [code |-> code, expected |-> 0, current |-> 0, cart |-> NilCart]

\* the two versions of a conflict, each in the place of the other
ErrConflictSwapped(expectedVersion, currentVersion) ==
  [code |-> "CONFLICT", expected |-> currentVersion, current |-> expectedVersion,
   cart |-> NilCart]

\* errors.ErrConflict(expectedVersion, currentVersion)
ErrConflict(expectedVersion, currentVersion) ==
  [code |-> "CONFLICT", expected |-> expectedVersion, current |-> currentVersion,
   cart |-> NilCart]

\* errors.HTTPStatusForCode: the httpStatusCodes of the codes the cart
\* service returns, 500 for any other code
HTTPStatusForCode(code) ==
  CASE code = "CART_NOT_FOUND" -> 404
    [] code = "ITEM_NOT_FOUND" -> 404
    [] code = "CART_LIMIT_EXCEEDED" -> 400
    [] code = "QUANTITY_LIMIT_EXCEEDED" -> 400
    [] code = "INVALID_QUANTITY" -> 400
    [] code = "CART_EXPIRED" -> 410
    [] code = "CONFLICT" -> 409
    [] code = "SERVICE_UNAVAILABLE" -> 503
    [] code = "PERSISTENCE_ERROR" -> 500
    [] OTHER -> 500

\* the status CartHandler.GetCart writes for the result of Service.GetCart:
\* writeSuccess, or writeError with the HTTPStatus of the AppError
GetCartStatus(res) ==
  IF res.code = "OK" THEN 200 ELSE HTTPStatusForCode(res.code)

IdleProc ==
  [pc |-> "idle", op |-> "none", user |-> "", productID |-> "", quantity |-> 0,
   unitPrice |-> 0, itemID |-> 0, expectedVersion |-> 0, guestID |-> "",
   cart |-> NilCart, guest |-> NilCart, res |-> NoResult,
   conc |-> FALSE,     \* history: another call was in flight during this one
   peers |-> {},       \* history: the calls that returned during this one
   seen |-> 0,         \* history: version stored for the user when the call loaded, 0 if none
   seenLive |-> FALSE, \* history: a row was stored and unexpired when the call loaded
   seenExp |-> 0,      \* history: expires_at stored for the user when the call loaded, 0 if none
   seenQty |-> 0,      \* history: stored quantity of the call's product or item at the load
   reread |-> 0,       \* history: version a follow-up read found, 0 if none
   created |-> FALSE,  \* history: GetOrCreateCart saved a new cart in this call
   pv |-> 0,           \* history: version of the mutated cart the call saved, 0 if none
   saveFails |-> 0,    \* history: SaveCart calls of this call that returned a transport error
   pubs |-> <<>>]      \* history: events handed to the publisher by the call

Mutations == {"AddItem", "UpdateItemQuantity", "RemoveItem", "ClearCart", "MergeGuestCart"}

StoredVersion(s, u) == IF u \in DOMAIN s THEN s[u].version ELSE 0

StoredLive(s, u, t) == u \in DOMAIN s /\ ~IsExpired(s[u], t)

QtyOfProduct(items, productID) ==
  LET idx == FindItemByProductID(items, productID)
  IN IF idx = 0 THEN 0 ELSE items[idx].quantity

QtyOfItem(items, itemID) ==
  LET idx == FindItem(items, itemID)
  IN IF idx = 0 THEN 0 ELSE items[idx].quantity

\* a fresh request record, with what the store holds as the call begins
Request(op, user) ==
  [IdleProc EXCEPT !.pc = "run", !.op = op, !.user = user,
                   !.conc = \E q \in Procs : proc[q].pc # "idle",
                   !.seen = StoredVersion(store, user),
                   !.seenLive = StoredLive(store, user, now),
                   !.seenExp = IF user \in DOMAIN store THEN store[user].expiresAt ELSE 0]

\* the call of rec returns res
Return(rec, res) == [rec EXCEPT !.pc = "idle", !.res = res]

\* the SaveCart of the call failed: the error is wrapped and returned at once
SaveFailed(rec) ==
  Return([rec EXCEPT !.saveFails = @ + 1], Failure("PERSISTENCE_ERROR"))

\* what a call in flight remembers of a call that returned meanwhile
Summary(rec) ==
  [op |-> rec.op, user |-> rec.user, productID |-> rec.productID,
   itemID |-> rec.itemID, quantity |-> rec.quantity, unitPrice |-> rec.unitPrice,
   expectedVersion |-> rec.expectedVersion, guestID |-> rec.guestID,
   seen |-> rec.seen, seenQty |-> rec.seenQty, code |-> rec.res.code]

\* process p moves to rec.  A call that begins is concurrent with those in
\* flight; a call that returns leaves its record in ret.
SetProc(p, rec) ==
  /\ proc' = [q \in Procs |->
                IF q = p THEN (IF rec.pc = "idle" THEN IdleProc ELSE rec)
                ELSE IF proc[q].pc = "idle" THEN proc[q]
                ELSE [proc[q] EXCEPT
                        !.conc = @ \/ proc[p].pc = "idle",
                        !.peers = IF rec.pc = "idle" THEN @ \cup {Summary(rec)} ELSE @]]
  /\ ret' = IF rec.pc = "idle" THEN rec ELSE IdleProc
  /\ opsStarted' = IF proc[p].pc = "idle" THEN opsStarted + 1 ELSE opsStarted
  /\ UNCHANGED <<adapter, idemRecords, idemDone, idemLast, aux>>

CanBegin(p, env) == proc[p].pc = "idle" /\ opsStarted < env.maxOps

NoWriteRecord == [user |-> "", old |-> 0, new |-> 0, again |-> FALSE]

\* the store becomes s; c is the row written, if one was
WriteStore(s, wrote, c) ==
  /\ store' = s
  /\ IF wrote
     THEN /\ written' = written \cup {<<c.userID, c.version>>}
          /\ lastWrite' = [user |-> c.userID, old |-> StoredVersion(store, c.userID),
                           new |-> c.version,
                           again |-> <<c.userID, c.version>> \in written]
     ELSE /\ lastWrite' = NoWriteRecord
          /\ UNCHANGED written

NoWrite == UNCHANGED <<store, written>> /\ lastWrite' = NoWriteRecord

\* uuid.New(): an id in use nowhere
IDsOf(c) == {c.id} \cup {c.items[i].itemID : i \in 1..Len(c.items)}

UsedIDs ==
  UNION ({IDsOf(store[u]) : u \in DOMAIN store}
         \cup {IDsOf(proc[p].cart) : p \in Procs}
         \cup {IDsOf(proc[p].guest) : p \in Procs}
         \cup {{proc[p].itemID} : p \in Procs}
         \cup {IDsOf(ret.cart), IDsOf(ret.res.cart), {ret.itemID}})

NewUUID ==
  LET used == UsedIDs
  IN CHOOSE n \in 1..(Cardinality(used) + 1) :
       /\ n \notin used
       /\ \A m \in 1..(n - 1) : m \in used

\* a publisher whose failure makes the call forget the cart it saved
PublishOrForget(rec, type, delivered) ==
  IF delivered
  THEN [rec EXCEPT !.pubs = Append(rec.pubs, [type |-> type, delivered |-> delivered])]
  ELSE [rec EXCEPT !.pubs = Append(rec.pubs, [type |-> type, delivered |-> delivered]),
                   !.cart = NilCart, !.pv = 0]

\* a publisher call that hands the event over twice
PublishTwice(rec, type, delivered) ==
  LET ev == [type |-> type, delivered |-> delivered]
  IN [rec EXCEPT !.pubs = Append(Append(rec.pubs, ev), ev)]

\* the publisher is called with an event of this type; its error is dropped
Publish(rec, type, delivered) ==
  IF PublishEvents
  THEN [rec EXCEPT !.pubs = Append(rec.pubs, [type |-> type, delivered |-> delivered])]
  ELSE rec

\* Service.GetCart: load, then the expiry check
ServiceGetCart(s, userID, t, fail) ==
  LET r == RepoGetCart(s, userID)
  IN IF fail THEN [err |-> "PERSISTENCE_ERROR", cart |-> NilCart]
     ELSE IF r.err # "OK" THEN [err |-> r.err, cart |-> NilCart]
     ELSE IF IsExpired(r.cart, t) THEN [err |-> "CART_EXPIRED", cart |-> NilCart]
     ELSE [err |-> "OK", cart |-> r.cart]

\* where a call goes on once GetOrCreateCart has given it the cart c
Loaded(rec, c) ==
  IF rec.op = "GetOrCreateCart" THEN Return(rec, Success(c))
  ELSE [rec EXCEPT !.pc = IF rec.op = "AddItem" THEN "save" ELSE "guest", !.cart = c]

\* Service.GetOrCreateCart up to its SaveCart: the load and NewCart
LoadOrCreate(rec, fail) ==
  LET r == RepoGetCart(store, rec.user)
  IN IF fail THEN Return(rec, Failure("PERSISTENCE_ERROR"))
     ELSE IF r.err # "OK" \/ IsExpired(r.cart, now)
     THEN [rec EXCEPT !.pc = "create", !.cart = NewCart(rec.user, NewUUID, now)]
     ELSE Loaded(rec, r.cart)

\* the item ids a client may name for user u: an id of no item, those of
\* the calls in flight, and those of the first and the last item stored
ItemChoices(u) ==
  {0} \cup {proc[q].itemID : q \in Procs} \cup {ret.itemID}
      \cup (IF u \in DOMAIN store
            THEN {store[u].items[i].itemID :
                    i \in {1, Len(store[u].items)} \cap (1..Len(store[u].items))}
            ELSE {})

\* ---- Service.GetCart ----
GetCart(p, env) ==
  /\ CanBegin(p, env)
  /\ \E u \in env.users, fail \in env.fails :
       LET r == ServiceGetCart(store, u, now, fail)
       IN SetProc(p, Return(Request("GetCart", u),
                            IF r.err = "OK" THEN Success(r.cart) ELSE Failure(r.err)))
  /\ NoWrite
  /\ UNCHANGED now

\* ---- Service.GetOrCreateCart ----
GetOrCreateCart(p, env) ==
  /\ CanBegin(p, env)
  /\ \E u \in env.users, fail \in env.fails :
       SetProc(p, LoadOrCreate(Request("GetOrCreateCart", u), fail))
  /\ NoWrite
  /\ UNCHANGED now

\* GetOrCreateCart: SaveCart(newCart), PublishCartCreated
CreateCart(p, env) ==
  /\ proc[p].pc = "create"
  /\ \E fail \in env.fails, delivered \in env.deliveries :
       LET rec == proc[p]
       IN IF fail
          THEN /\ SetProc(p, SaveFailed(rec))
               /\ NoWrite
          ELSE /\ WriteStore(RepoSaveCart(store, rec.cart).store, TRUE, rec.cart)
               /\ SetProc(p, Loaded(Publish([rec EXCEPT !.created = TRUE],
                                            "cart.created", delivered),
                                    rec.cart))
  /\ UNCHANGED now

\* ---- Service.AddItem ----
AddItemBegin(p, env) ==
  /\ CanBegin(p, env)
  /\ \E u \in env.users \cup env.guests, pid \in env.products,
        q \in env.quantities, price \in env.prices, fail \in env.fails :
       SetProc(p, LoadOrCreate([Request("AddItem", u) EXCEPT
                                  !.productID = pid, !.quantity = q, !.unitPrice = price,
                                  !.seenQty = IF StoredLive(store, u, now)
                                              THEN QtyOfProduct(store[u].items, pid)
                                              ELSE 0],
                               fail))
  /\ NoWrite
  /\ UNCHANGED now

\* NewCartItem, cart.AddItem, IncrementVersion, SaveCart, PublishItemAdded
AddItemSave(p, env) ==
  /\ proc[p].pc = "save" /\ proc[p].op = "AddItem"
  /\ \E fail \in env.fails, delivered \in env.deliveries :
       LET rec  == proc[p]
           item == NewCartItem(rec.productID, rec.quantity, rec.unitPrice, NewUUID, now)
           d    == CartAddItem(rec.cart, item, now)
           c    == IncrementVersion(d.cart, now)
       IN IF d.err # "OK"
          THEN /\ SetProc(p, Return(rec, Failure(d.err)))
               /\ NoWrite
          ELSE IF fail
          THEN /\ SetProc(p, SaveFailed([rec EXCEPT !.cart = c]))
               /\ NoWrite
          ELSE /\ WriteStore(RepoSaveCart(store, c).store, TRUE, c)
               /\ SetProc(p, Return(Publish([rec EXCEPT !.cart = c, !.pv = c.version],
                                            "cart.item_added", delivered),
                                    Success(c)))
  /\ UNCHANGED now

\* ---- Service.UpdateItemQuantity ----
\* GetCart and the check of the caller's version
UpdateItemQuantityBegin(p, env) ==
  /\ CanBegin(p, env)
  /\ \E u \in env.users, q \in env.updateQuantities, ev \in env.expectedVersions,
        fail \in env.fails :
       \E id \in ItemChoices(u) :
         LET req == [Request("UpdateItemQuantity", u) EXCEPT
                       !.itemID = id, !.quantity = q, !.expectedVersion = ev,
                       !.seenQty = IF StoredLive(store, u, now)
                                   THEN QtyOfItem(store[u].items, id) ELSE 0]
             r   == ServiceGetCart(store, u, now, fail)
         IN SetProc(p, IF r.err # "OK" THEN Return(req, Failure(r.err))
                       ELSE IF ev > 0 /\ r.cart.version # ev
                       THEN Return(req, ErrConflict(ev, r.cart.version))
                       ELSE [req EXCEPT !.pc = "save", !.cart = r.cart])
  /\ NoWrite
  /\ UNCHANGED now

\* cart.UpdateItemQuantity, IncrementVersion, SaveCartWithVersion, PublishItemUpdated
UpdateItemQuantitySave(p, env) ==
  /\ proc[p].pc = "save" /\ proc[p].op = "UpdateItemQuantity"
  /\ \E fail \in env.fails, delivered \in env.deliveries :
       LET rec == proc[p]
           d   == CartUpdateItemQuantity(rec.cart, rec.itemID, rec.quantity, now)
           expectedVersion == d.cart.version
           c   == IncrementVersion(d.cart, now)
           sv  == RepoSaveCartWithVersion(store, c, expectedVersion)
       IN IF d.err # "OK"
          THEN /\ SetProc(p, Return(rec, Failure(d.err)))
               /\ NoWrite
          ELSE IF fail
          THEN /\ SetProc(p, SaveFailed([rec EXCEPT !.cart = c]))
               /\ NoWrite
          ELSE IF sv.err = "CONFLICT"
          THEN /\ SetProc(p, Return([rec EXCEPT !.cart = c],
                                    ErrConflict(sv.expected, sv.current)))
               /\ NoWrite
          ELSE /\ WriteStore(sv.store, TRUE, c)
               /\ SetProc(p, Return(Publish([rec EXCEPT !.cart = c, !.pv = c.version],
                                            "cart.item_updated", delivered),
                                    Success(c)))
  /\ UNCHANGED now

\* ---- Service.RemoveItem ----
RemoveItemBegin(p, env) ==
  /\ CanBegin(p, env)
  /\ \E u \in env.users, fail \in env.fails :
       \E id \in ItemChoices(u) :
         LET req == [Request("RemoveItem", u) EXCEPT
                       !.itemID = id,
                       !.seenQty = IF StoredLive(store, u, now)
                                   THEN QtyOfItem(store[u].items, id) ELSE 0]
             r   == ServiceGetCart(store, u, now, fail)
         IN SetProc(p, IF r.err # "OK" THEN Return(req, Failure(r.err))
                       ELSE [req EXCEPT !.pc = "save", !.cart = r.cart])
  /\ NoWrite
  /\ UNCHANGED now

\* cart.RemoveItem, IncrementVersion, SaveCart, PublishItemRemoved
RemoveItemSave(p, env) ==
  /\ proc[p].pc = "save" /\ proc[p].op = "RemoveItem"
  /\ \E fail \in env.fails, delivered \in env.deliveries :
       LET rec == proc[p]
           d   == CartRemoveItem(rec.cart, rec.itemID, now)
           c   == IncrementVersion(d.cart, now)
       IN IF d.err # "OK"
          THEN /\ SetProc(p, Return(rec, Failure(d.err)))
               /\ NoWrite
          ELSE IF fail
          THEN /\ SetProc(p, SaveFailed([rec EXCEPT !.cart = c]))
               /\ NoWrite
          ELSE /\ WriteStore(RepoSaveCart(store, c).store, TRUE, c)
               /\ SetProc(p, Return(Publish([rec EXCEPT !.cart = c, !.pv = c.version],
                                            "cart.item_removed", delivered),
                                    Success(c)))
  /\ UNCHANGED now

\* ---- Service.ClearCart ----
ClearCartBegin(p, env) ==
  /\ CanBegin(p, env)
  /\ \E u \in env.users, fail \in env.fails :
       LET req == Request("ClearCart", u)
           r   == ServiceGetCart(store, u, now, fail)
       IN SetProc(p, IF r.err = "CART_NOT_FOUND" THEN Return(req, Success(NilCart))
                     ELSE IF r.err # "OK" THEN Return(req, Failure(r.err))
                     ELSE [req EXCEPT !.pc = "save", !.cart = r.cart])
  /\ NoWrite
  /\ UNCHANGED now

\* cart.Clear, IncrementVersion, SaveCart, PublishCartCleared
ClearCartSave(p, env) ==
  /\ proc[p].pc = "save" /\ proc[p].op = "ClearCart"
  /\ \E fail \in env.fails, delivered \in env.deliveries :
       LET rec == proc[p]
           c   == IncrementVersion(CartClear(rec.cart, now), now)
       IN IF fail
          THEN /\ SetProc(p, SaveFailed([rec EXCEPT !.cart = c]))
               /\ NoWrite
          ELSE /\ WriteStore(RepoSaveCart(store, c).store, TRUE, c)
               /\ SetProc(p, Return(Publish([rec EXCEPT !.cart = c, !.pv = c.version],
                                            "cart.cleared", delivered),
                                    Success(NilCart)))
  /\ UNCHANGED now

\* ---- Service.DeleteCart ----
DeleteCart(p, env) ==
  /\ CanBegin(p, env)
  /\ \E u \in env.users, fail \in env.fails :
       LET req == Request("DeleteCart", u)
       IN IF fail
          THEN /\ SetProc(p, Return(req, Failure("PERSISTENCE_ERROR")))
               /\ NoWrite
          ELSE /\ SetProc(p, Return(req, Success(NilCart)))
               /\ WriteStore(RepoDeleteCart(store, u).store, FALSE, NilCart)
  /\ UNCHANGED now

\* ---- Service.MergeGuestCart ----
MergeGuestCartBegin(p, env) ==
  /\ CanBegin(p, env)
  /\ \E u \in env.mergers, g \in env.guests, fail \in env.fails :
       SetProc(p, LoadOrCreate([Request("MergeGuestCart", u) EXCEPT !.guestID = g], fail))
  /\ NoWrite
  /\ UNCHANGED now

\* repo.GetCart(guestID)
MergeGuestCartLoadGuest(p, env) ==
  /\ proc[p].pc = "guest"
  /\ \E fail \in env.fails :
       LET rec == proc[p]
           r   == RepoGetCart(store, rec.guestID)
       IN SetProc(p, IF fail THEN Return(rec, Failure("PERSISTENCE_ERROR"))
                     ELSE IF r.err # "OK" THEN Return(rec, Success(rec.cart))
                     ELSE [rec EXCEPT !.pc = "save", !.guest = r.cart])
  /\ NoWrite
  /\ UNCHANGED now

\* MergeCarts, IncrementVersion, SaveCart
MergeGuestCartSave(p, env) ==
  /\ proc[p].pc = "save" /\ proc[p].op = "MergeGuestCart"
  /\ \E fail \in env.fails :
       LET rec == proc[p]
           mergedCart == IncrementVersion(MergeCarts(rec.cart, rec.guest, now), now)
       IN IF fail
          THEN /\ SetProc(p, SaveFailed([rec EXCEPT !.cart = mergedCart]))
               /\ NoWrite
          ELSE /\ WriteStore(RepoSaveCart(store, mergedCart).store, TRUE, mergedCart)
               /\ SetProc(p, [rec EXCEPT !.pc = "delguest", !.cart = mergedCart,
                                         !.pv = mergedCart.version])
  /\ UNCHANGED now

\* repo.DeleteCart(guestID), its error dropped
MergeGuestCartDeleteGuest(p, env) ==
  /\ proc[p].pc = "delguest"
  /\ \E fail \in env.fails :
       /\ SetProc(p, Return(proc[p], Success(proc[p].cart)))
       /\ IF fail THEN NoWrite
          ELSE WriteStore(RepoDeleteCart(store, proc[p].guestID).store, FALSE, NilCart)
  /\ UNCHANGED now

\* ---- Service.TouchCart ----
TouchCartBegin(p, env) ==
  /\ CanBegin(p, env)
  /\ \E u \in env.users, fail \in env.fails :
       LET req == Request("TouchCart", u)
           r   == ServiceGetCart(store, u, now, fail)
       IN SetProc(p, IF r.err # "OK" THEN Return(req, Failure(r.err))
                     ELSE [req EXCEPT !.pc = "save", !.cart = r.cart])
  /\ NoWrite
  /\ UNCHANGED now

\* ExtendExpiration, SaveCart
TouchCartSave(p, env) ==
  /\ proc[p].pc = "save" /\ proc[p].op = "TouchCart"
  /\ \E fail \in env.fails :
       LET rec == proc[p]
           c   == ExtendExpiration(rec.cart, now)
       IN IF fail
          THEN /\ SetProc(p, SaveFailed([rec EXCEPT !.cart = c]))
               /\ NoWrite
          ELSE /\ WriteStore(RepoSaveCart(store, c).store, TRUE, c)
               /\ SetProc(p, Return([rec EXCEPT !.cart = c, !.pv = c.version],
                                    Success(NilCart)))
  /\ UNCHANGED now

\* ---- the clock ----
Tick(env) ==
  \E d \in env.ticks :
    /\ now + d <= env.maxTime
    /\ now' = now + d
    /\ ret' = env.idle
    /\ lastWrite' = NoWriteRecord
    /\ UNCHANGED <<store, proc, opsStarted, written, adapter, idemRecords, idemDone,
                   idemLast, aux>>

\* ------------------------------------------------------------------------
\* The cart service under concurrent requests
\* ------------------------------------------------------------------------
\* What the clients and the environment do in a specification: calls arrive
\* for these users with these arguments (a guest id only receives AddItem and
\* is merged), the clock jumps by these steps, the backend calls and the
\* publisher fail or not as listed.
MainEnv ==
  [users |-> {"u1"}, guests |-> {"g1"}, mergers |-> {"u1"},
   products |-> {"p1"}, quantities |-> {0, 40}, prices |-> {5},
   updateQuantities |-> {50}, expectedVersions |-> {0, 1, 2},
   fails |-> {FALSE}, deliveries |-> {TRUE},
   ticks |-> {8}, maxTime |-> MaxTime, maxOps |-> MaxOps, idle |-> IdleProc]

Init ==
  /\ store = <<>>
  /\ now = 0
  /\ proc = [p \in Procs |-> IdleProc]
  /\ ret = IdleProc
  /\ opsStarted = 0
  /\ written = {}
  /\ lastWrite = NoWriteRecord
  /\ adapter = "inmemory"
  /\ idemRecords = <<>>
  /\ idemDone = <<>>
  /\ idemLast = <<>>
  /\ InitAux

Next ==
  \/ \E p \in Procs : GetCart(p, MainEnv)
  \/ \E p \in Procs : GetOrCreateCart(p, MainEnv)
  \/ \E p \in Procs : CreateCart(p, MainEnv)
  \/ \E p \in Procs : AddItemBegin(p, MainEnv)
  \/ \E p \in Procs : AddItemSave(p, MainEnv)
  \/ \E p \in Procs : UpdateItemQuantityBegin(p, MainEnv)
  \/ \E p \in Procs : UpdateItemQuantitySave(p, MainEnv)
  \/ \E p \in Procs : RemoveItemBegin(p, MainEnv)
  \/ \E p \in Procs : RemoveItemSave(p, MainEnv)
  \/ \E p \in Procs : ClearCartBegin(p, MainEnv)
  \/ \E p \in Procs : ClearCartSave(p, MainEnv)
  \/ \E p \in Procs : DeleteCart(p, MainEnv)
  \/ \E p \in Procs : MergeGuestCartBegin(p, MainEnv)
  \/ \E p \in Procs : MergeGuestCartLoadGuest(p, MainEnv)
  \/ \E p \in Procs : MergeGuestCartSave(p, MainEnv)
  \/ \E p \in Procs : MergeGuestCartDeleteGuest(p, MainEnv)
  \/ \E p \in Procs : TouchCartBegin(p, MainEnv)
  \/ \E p \in Procs : TouchCartSave(p, MainEnv)
  \/ Tick(MainEnv)

Spec == Init /\ [][Next]_vars

TypeOK ==
  /\ now \in 0..MaxTime
  /\ opsStarted \in 0..(MaxOps + 1)
  /\ DOMAIN store \subseteq Users

\* ------------------------------------------------------------------------
\* Races on one cart: a guest cart that two clients change while a login
\* merges it into the cart of user u1
\* ------------------------------------------------------------------------
RaceEnv ==
  [users |-> {"g1"}, guests |-> {"g1"}, mergers |-> {"u1"},
   products |-> {"p1"}, quantities |-> {40}, prices |-> {5},
   updateQuantities |-> {50}, expectedVersions |-> {0},
   fails |-> {FALSE}, deliveries |-> {TRUE},
   ticks |-> {}, maxTime |-> MaxTime, maxOps |-> MaxRaceOps, idle |-> IdleProc]

NextRace ==
  \/ \E p \in Procs : CreateCart(p, RaceEnv)
  \/ \E p \in Procs : AddItemBegin(p, RaceEnv)
  \/ \E p \in Procs : AddItemSave(p, RaceEnv)
  \/ \E p \in Procs : UpdateItemQuantityBegin(p, RaceEnv)
  \/ \E p \in Procs : UpdateItemQuantitySave(p, RaceEnv)
  \/ \E p \in Procs : RemoveItemBegin(p, RaceEnv)
  \/ \E p \in Procs : RemoveItemSave(p, RaceEnv)
  \/ \E p \in Procs : MergeGuestCartBegin(p, RaceEnv)
  \/ \E p \in Procs : MergeGuestCartLoadGuest(p, RaceEnv)
  \/ \E p \in Procs : MergeGuestCartSave(p, RaceEnv)
  \/ \E p \in Procs : MergeGuestCartDeleteGuest(p, RaceEnv)

SpecRace == Init /\ [][NextRace]_vars

\* ------------------------------------------------------------------------
\* One user's cart with a backend and a publisher that may fail
\* ------------------------------------------------------------------------
FaultEnv ==
  [users |-> {"u1"}, guests |-> {}, mergers |-> {},
   products |-> {"p1"}, quantities |-> {40}, prices |-> {5},
   updateQuantities |-> {50}, expectedVersions |-> {0, 1, 2},
   fails |-> BOOLEAN, deliveries |-> BOOLEAN,
   ticks |-> {8}, maxTime |-> MaxTime, maxOps |-> MaxOps, idle |-> IdleProc]

NextFault ==
  \/ \E p \in Procs : GetCart(p, FaultEnv)
  \/ \E p \in Procs : GetOrCreateCart(p, FaultEnv)
  \/ \E p \in Procs : CreateCart(p, FaultEnv)
  \/ \E p \in Procs : AddItemBegin(p, FaultEnv)
  \/ \E p \in Procs : AddItemSave(p, FaultEnv)
  \/ \E p \in Procs : UpdateItemQuantityBegin(p, FaultEnv)
  \/ \E p \in Procs : UpdateItemQuantitySave(p, FaultEnv)
  \/ \E p \in Procs : RemoveItemBegin(p, FaultEnv)
  \/ \E p \in Procs : RemoveItemSave(p, FaultEnv)
  \/ \E p \in Procs : ClearCartBegin(p, FaultEnv)
  \/ \E p \in Procs : ClearCartSave(p, FaultEnv)
  \/ \E p \in Procs : DeleteCart(p, FaultEnv)
  \/ \E p \in Procs : TouchCartBegin(p, FaultEnv)
  \/ \E p \in Procs : TouchCartSave(p, FaultEnv)
  \/ Tick(FaultEnv)

SpecFault == Init /\ [][NextFault]_vars

\* ------------------------------------------------------------------------
\* Carts at the limits: the cart of u1 holds 99 or 100 items, of quantity 1
\* and 99, and the guest cart g1 a product of u1 and two products more
\* ------------------------------------------------------------------------
ProductName(i) == "p" \o ToString(i)

\* the cart of user u that AddItem calls for the products 1..n, each followed
\* by IncrementVersion, make of a new cart; its ids are base, ..., base + n
Filled(u, base, n) ==
  [NewCart(u, base, 0) EXCEPT
     !.items = [i \in 1..n |->
                  NewCartItem(ProductName(i),
                              IF i = 1 THEN MinQuantityPerItem ELSE MaxQuantityPerItem,
                              5, base + i, 0)],
     !.version = n + 1]

\* the guest cart: product 1 of the user's cart with a larger quantity, and
\* two products the user's cart does not hold
GuestSeed(g, base) ==
  LET a == CartAddItem(NewCart(g, base, 0),
                       NewCartItem(ProductName(1), MaxQuantityPerItem, 5, base + 1, 0), 0).cart
      b == CartAddItem(a, NewCartItem(ProductName(MaxItemsPerCart + 1),
                                      MinQuantityPerItem, 5, base + 2, 0), 0).cart
      c == CartAddItem(b, NewCartItem(ProductName(MaxItemsPerCart + 2),
                                      MaxQuantityPerItem, 5, base + 3, 0), 0).cart
  IN [c EXCEPT !.version = 4]

FullEnv ==
  [users |-> {"u1"}, guests |-> {"g1"}, mergers |-> {"u1"},
   products |-> {ProductName(1), ProductName(0)},
   quantities |-> {0, 1, 99, 100}, prices |-> {5},
   updateQuantities |-> {0, 1, 99, 100}, expectedVersions |-> {0},
   fails |-> {FALSE}, deliveries |-> {TRUE},
   ticks |-> {}, maxTime |-> MaxTime, maxOps |-> MaxFullOps, idle |-> IdleProc]

InitFull ==
  /\ \E n \in {MaxItemsPerCart - 1, MaxItemsPerCart} :
       store = [u \in {"u1", "g1"} |->
                  IF u = "u1" THEN Filled("u1", 1, n)
                  ELSE GuestSeed("g1", MaxItemsPerCart + 2)]
  /\ now = 0
  /\ proc = [p \in Procs |-> IdleProc]
  /\ ret = IdleProc
  /\ opsStarted = 0
  /\ written = {}
  /\ lastWrite = NoWriteRecord
  /\ adapter = "inmemory"
  /\ idemRecords = <<>>
  /\ idemDone = <<>>
  /\ idemLast = <<>>
  /\ InitAux

\* the calls come one after the other
NextFull ==
  \/ GetOrCreateCart(1, FullEnv)
  \/ CreateCart(1, FullEnv)
  \/ AddItemBegin(1, FullEnv)
  \/ AddItemSave(1, FullEnv)
  \/ UpdateItemQuantityBegin(1, FullEnv)
  \/ UpdateItemQuantitySave(1, FullEnv)
  \/ RemoveItemBegin(1, FullEnv)
  \/ RemoveItemSave(1, FullEnv)
  \/ ClearCartBegin(1, FullEnv)
  \/ ClearCartSave(1, FullEnv)
  \/ DeleteCart(1, FullEnv)
  \/ MergeGuestCartBegin(1, FullEnv)
  \/ MergeGuestCartLoadGuest(1, FullEnv)
  \/ MergeGuestCartSave(1, FullEnv)
  \/ MergeGuestCartDeleteGuest(1, FullEnv)
  \/ TouchCartBegin(1, FullEnv)
  \/ TouchCartSave(1, FullEnv)

SpecFull == InitFull /\ [][NextFull]_vars

\* ------------------------------------------------------------------------
\* One user's cart over a week: the clock moves by 3 and by 5 days
\* ------------------------------------------------------------------------
TimeEnv ==
  [users |-> {"u1"}, guests |-> {}, mergers |-> {},
   products |-> {"p1"}, quantities |-> {40}, prices |-> {5},
   updateQuantities |-> {50}, expectedVersions |-> {0},
   fails |-> {FALSE}, deliveries |-> {TRUE},
   ticks |-> {3, 5}, maxTime |-> MaxTime, maxOps |-> MaxOps, idle |-> IdleProc]

NextTime ==
  \/ \E p \in Procs : CreateCart(p, TimeEnv)
  \/ \E p \in Procs : AddItemBegin(p, TimeEnv)
  \/ \E p \in Procs : AddItemSave(p, TimeEnv)
  \/ \E p \in Procs : UpdateItemQuantityBegin(p, TimeEnv)
  \/ \E p \in Procs : UpdateItemQuantitySave(p, TimeEnv)
  \/ \E p \in Procs : RemoveItemBegin(p, TimeEnv)
  \/ \E p \in Procs : RemoveItemSave(p, TimeEnv)
  \/ \E p \in Procs : ClearCartBegin(p, TimeEnv)
  \/ \E p \in Procs : ClearCartSave(p, TimeEnv)
  \/ \E p \in Procs : TouchCartBegin(p, TimeEnv)
  \/ \E p \in Procs : TouchCartSave(p, TimeEnv)
  \/ Tick(TimeEnv)

SpecTime == Init /\ [][NextTime]_vars

\* ------------------------------------------------------------------------
\* Logins: carts of u1 and g1, and merges into the cart of u1 that name g1
\* or u1 itself as the guest
\* ------------------------------------------------------------------------
MergeEnv ==
  [users |-> {"u1", "g1"}, guests |-> {"g1", "u1"}, mergers |-> {"u1"},
   products |-> {"p1", "p2"}, quantities |-> {40}, prices |-> {5},
   updateQuantities |-> {50}, expectedVersions |-> {0},
   fails |-> {FALSE}, deliveries |-> {TRUE},
   ticks |-> {}, maxTime |-> MaxTime, maxOps |-> MaxMergeOps, idle |-> IdleProc]

NextMerge ==
  \/ \E p \in Procs : CreateCart(p, MergeEnv)
  \/ \E p \in Procs : AddItemBegin(p, MergeEnv)
  \/ \E p \in Procs : AddItemSave(p, MergeEnv)
  \/ \E p \in Procs : MergeGuestCartBegin(p, MergeEnv)
  \/ \E p \in Procs : MergeGuestCartLoadGuest(p, MergeEnv)
  \/ \E p \in Procs : MergeGuestCartSave(p, MergeEnv)
  \/ \E p \in Procs : MergeGuestCartDeleteGuest(p, MergeEnv)

SpecMerge == Init /\ [][NextMerge]_vars

\* ------------------------------------------------------------------------
\* The domain functions alone: a user cart and a guest cart in memory, each
\* made of a new cart by at most two AddItem calls; the methods of Cart are
\* called on the user cart, and MergeCarts on the two
\* ------------------------------------------------------------------------
\* the carts of user u that at most two AddItem calls make of a new cart;
\* their ids are base, base + 1, base + 2
SeedCarts(u, base) ==
  LET new == NewCart(u, base, 0)
      one(pid, q) == CartAddItem(new, NewCartItem(pid, q, 5, base + 1, 0), 0).cart
  IN {new}
     \cup {one(pid, q) : pid \in {"p1", "p2"}, q \in {30, 99}}
     \cup {CartAddItem(one("p1", q1), NewCartItem("p2", q2, 5, base + 2, 0), 0).cart :
             q1 \in {30, 99}, q2 \in {30, 99}}

NoPrior ==
  [op |-> "none", productID |-> "", quantity |-> 0, unitPrice |-> 0,
   code |-> "NONE", before |-> NilCart]

\* the last call of a domain function: its arguments, the cart before and
\* after, the second argument of MergeCarts, and the call before it
DomIdle ==
  [op |-> "none", user |-> "", productID |-> "", quantity |-> 0, unitPrice |-> 0,
   itemID |-> 0, before |-> NilCart, guest |-> NilCart, cart |-> NilCart,
   res |-> NoResult, prior |-> NoPrior]

DomResult(r) == IF r.err = "OK" THEN Success(r.cart) ELSE Failure(r.err)

\* the call rec was made and left the carts s
DomStep(rec, s) ==
  /\ opsStarted' = opsStarted + 1
  /\ store' = s
  /\ ret' = [rec EXCEPT !.prior = [op |-> ret.op, productID |-> ret.productID,
                                   quantity |-> ret.quantity,
                                   unitPrice |-> ret.unitPrice,
                                   code |-> ret.res.code, before |-> ret.before]]
  /\ UNCHANGED <<now, proc, written, lastWrite, adapter, idemRecords, idemDone, idemLast,
                 aux>>

DomAddItem(env) ==
  /\ opsStarted < env.maxOps
  /\ \E u \in env.users, pid \in env.products, q \in env.quantities, price \in env.prices :
        LET item == NewCartItem(pid, q, price, NewUUID, now)
            r    == CartAddItem(store[u], item, now)
        IN DomStep([DomIdle EXCEPT !.op = "AddItem", !.user = u, !.productID = pid,
                                   !.quantity = q, !.unitPrice = price,
                                   !.itemID = item.itemID, !.before = store[u],
                                   !.cart = r.cart, !.res = DomResult(r)],
                   [store EXCEPT ![u] = r.cart])

DomUpdateItemQuantity(env) ==
  /\ opsStarted < env.maxOps
  /\ \E u \in env.users, q \in env.updateQuantities :
        \E id \in ItemChoices(u) :
           LET r == CartUpdateItemQuantity(store[u], id, q, now)
           IN DomStep([DomIdle EXCEPT !.op = "UpdateItemQuantity", !.user = u,
                                      !.itemID = id, !.quantity = q,
                                      !.before = store[u], !.cart = r.cart,
                                      !.res = DomResult(r)],
                      [store EXCEPT ![u] = r.cart])

DomRemoveItem(env) ==
  /\ opsStarted < env.maxOps
  /\ \E u \in env.users :
        \E id \in ItemChoices(u) :
           LET r == CartRemoveItem(store[u], id, now)
           IN DomStep([DomIdle EXCEPT !.op = "RemoveItem", !.user = u, !.itemID = id,
                                      !.before = store[u], !.cart = r.cart,
                                      !.res = DomResult(r)],
                      [store EXCEPT ![u] = r.cart])

DomClear(env) ==
  /\ opsStarted < env.maxOps
  /\ \E u \in env.users :
        LET c == CartClear(store[u], now)
        IN DomStep([DomIdle EXCEPT !.op = "Clear", !.user = u, !.before = store[u],
                                   !.cart = c, !.res = Success(c)],
                   [store EXCEPT ![u] = c])

\* MergeCarts(userCart, guestCart), either of which may be nil; the function
\* changes the cart it returns in place
DomMergeCarts(env) ==
  /\ opsStarted < env.maxOps
  /\ \E u \in env.mergers, g \in env.guests :
        \E userCart \in {store[u], NilCart}, guestCart \in {store[g], NilCart} :
           LET merged == MergeCarts(userCart, guestCart, now)
           IN DomStep([DomIdle EXCEPT !.op = "MergeCarts", !.user = u,
                                      !.before = userCart, !.guest = guestCart,
                                      !.cart = merged, !.res = Success(merged)],
                      IF userCart # NilCart THEN [store EXCEPT ![u] = merged]
                      ELSE IF guestCart # NilCart THEN [store EXCEPT ![g] = merged]
                      ELSE store)

DomainEnv ==
  [users |-> {"u1"}, guests |-> {"g1"}, mergers |-> {"u1"},
   products |-> {"p1", "p3"}, quantities |-> {0, 30, 100}, prices |-> {7},
   updateQuantities |-> {45}, maxOps |-> MaxDomainOps, idle |-> DomIdle]

InitDomain ==
  /\ \E userCart \in SeedCarts("u1", 1), guestCart \in SeedCarts("g1", 4) :
       store = [u \in {"u1", "g1"} |-> IF u = "u1" THEN userCart ELSE guestCart]
  /\ now = 0
  /\ proc = [p \in Procs |-> IdleProc]
  /\ ret = DomIdle
  /\ opsStarted = 0
  /\ written = {}
  /\ lastWrite = NoWriteRecord
  /\ adapter = "inmemory"
  /\ idemRecords = <<>>
  /\ idemDone = <<>>
  /\ idemLast = <<>>
  /\ InitAux

NextDomain ==
  \/ DomAddItem(DomainEnv)
  \/ DomUpdateItemQuantity(DomainEnv)
  \/ DomRemoveItem(DomainEnv)
  \/ DomClear(DomainEnv)
  \/ DomMergeCarts(DomainEnv)

SpecDomain == InitDomain /\ [][NextDomain]_vars

\* ------------------------------------------------------------------------
\* The repository adapters under concurrent calls:
\* internal/persistence/inmemory/repository.go and the DynamoDB repository.
\* The in-memory adapter never fails; a DynamoDB call may.  Timestamps are
\* whole days, which the RFC3339 encoding of a row keeps as they are.
\* ------------------------------------------------------------------------
\* ConditionExpression: attribute_not_exists(PK) OR version = :expected_version
DynamoConditionHolds(s, userID, expectedVersion) ==
  userID \notin DOMAIN s \/ s[userID].version = expectedVersion

\* a cart of version v that a caller hands to the repository
CartToSave(userID, v) == [NewCart(userID, 1, now) EXCEPT !.version = v]

\* ---- Repository.SaveCart ----
SaveCartCall(p, env) ==
  /\ CanBegin(p, env)
  /\ \E u \in env.users, v \in env.versions, fail \in env.fails :
       LET c   == CartToSave(u, v)
           req == [Request("SaveCart", u) EXCEPT !.cart = c]
       IN IF adapter = "dynamodb" /\ fail
          THEN /\ SetProc(p, Return(req, Failure("PERSISTENCE_ERROR")))
               /\ NoWrite
          ELSE /\ WriteStore(RepoSaveCart(store, c).store, TRUE, c)
               /\ SetProc(p, Return([req EXCEPT !.pv = c.version], Success(NilCart)))
  /\ UNCHANGED now

\* ---- Repository.SaveCartWithVersion ----
\* in memory: the whole call; DynamoDB: the conditional PutItem
SaveCartWithVersionCall(p, env) ==
  /\ CanBegin(p, env)
  /\ \E u \in env.users, v \in env.versions, ev \in env.expectedVersions,
        fail \in env.fails :
       LET c   == CartToSave(u, v)
           req == [Request("SaveCartWithVersion", u) EXCEPT
                     !.cart = c, !.expectedVersion = ev]
           sv  == RepoSaveCartWithVersion(store, c, ev)
       IN IF adapter = "inmemory"
          THEN IF sv.err = "CONFLICT"
               THEN /\ SetProc(p, Return(req, ErrConflict(sv.expected, sv.current)))
                    /\ NoWrite
               ELSE /\ WriteStore(sv.store, TRUE, c)
                    /\ SetProc(p, Return([req EXCEPT !.pv = c.version], Success(NilCart)))
          ELSE IF fail
          THEN /\ SetProc(p, Return(req, Failure("PERSISTENCE_ERROR")))
               /\ NoWrite
          ELSE IF DynamoConditionHolds(store, u, ev)
          THEN /\ WriteStore(PutRow(store, c), TRUE, c)
               /\ SetProc(p, Return([req EXCEPT !.pv = c.version], Success(NilCart)))
          ELSE /\ SetProc(p, [req EXCEPT !.pc = "reread"])
               /\ NoWrite
  /\ UNCHANGED now

\* DynamoDB, after ConditionalCheckFailed: r.GetCart for the current version,
\* 0 when that read fails
SaveCartWithVersionReread(p, env) ==
  /\ proc[p].pc = "reread"
  /\ \E fail \in env.fails :
       LET rec == proc[p]
           r   == RepoGetCart(store, rec.user)
           currentVersion == IF fail \/ r.err # "OK" THEN 0 ELSE r.cart.version
       IN SetProc(p, Return([rec EXCEPT !.reread = currentVersion],
                            ErrConflict(rec.expectedVersion, currentVersion)))
  /\ NoWrite
  /\ UNCHANGED now

\* ---- Repository.DeleteCart ----
DeleteCartCall(p, env) ==
  /\ CanBegin(p, env)
  /\ \E u \in env.users, fail \in env.fails :
       LET req == Request("DeleteCart", u)
           r   == RepoDeleteCart(store, u)
       IN IF adapter = "dynamodb" /\ fail
          THEN /\ SetProc(p, Return(req, Failure("PERSISTENCE_ERROR")))
               /\ NoWrite
          ELSE /\ SetProc(p, Return(req, IF r.err = "OK" THEN Success(NilCart)
                                         ELSE Failure(r.err)))
               /\ WriteStore(r.store, FALSE, NilCart)
  /\ UNCHANGED now

RepoEnv ==
  [users |-> {"u1"}, versions |-> 1..MaxVersion, expectedVersions |-> 0..MaxVersion,
   fails |-> BOOLEAN, maxOps |-> MaxRepoOps, idle |-> IdleProc]

InitRepo ==
  /\ store = <<>>
  /\ now = 0
  /\ proc = [p \in Procs |-> IdleProc]
  /\ ret = IdleProc
  /\ opsStarted = 0
  /\ written = {}
  /\ lastWrite = NoWriteRecord
  /\ adapter \in {"inmemory", "dynamodb"}
  /\ idemRecords = <<>>
  /\ idemDone = <<>>
  /\ idemLast = <<>>
  /\ InitAux

NextRepo ==
  \/ \E p \in Procs : SaveCartCall(p, RepoEnv)
  \/ \E p \in Procs : SaveCartWithVersionCall(p, RepoEnv)
  \/ \E p \in Procs : SaveCartWithVersionReread(p, RepoEnv)
  \/ \E p \in Procs : DeleteCartCall(p, RepoEnv)

SpecRepo == InitRepo /\ [][NextRepo]_vars

\* ------------------------------------------------------------------------
\* Idempotency middleware: internal/api/middleware/idempotency.go.
\* The wrapped handler is any handler: it answers each call with some status
\* and body.
\* ------------------------------------------------------------------------
\* IdempotencyTTL, 24 hours, in days
IdempotencyTTL == 1

StatusOK == 200

\* userID + ":" + idempotencyKey, the user of a request without X-User-ID
\* being "anonymous"
ScopedKey(userHeader, key) ==
  (IF userHeader = "" THEN "anonymous" ELSE userHeader) \o ":" \o key

NoRecord == [found |-> FALSE, statusCode |-> 0, body |-> ""]

\* a record is expired once time.Now() is at or after its expiresAt
IdemGetEarly(records, key, t) ==
  IF key \notin DOMAIN records \/ t >= records[key].expiresAt THEN NoRecord
  ELSE [found |-> TRUE, statusCode |-> records[key].statusCode,
        body |-> records[key].body]

\* InMemoryIdempotencyStore.Get
IdemGet(records, key, t) ==
  IF key \notin DOMAIN records THEN NoRecord
  ELSE IF t > records[key].expiresAt THEN NoRecord
  ELSE [found |-> TRUE, statusCode |-> records[key].statusCode,
        body |-> records[key].body]

\* InMemoryIdempotencyStore.Set
IdemSet(records, key, statusCode, body, ttl, t) ==
  [k \in (DOMAIN records) \cup {key} |->
     IF k = key THEN [statusCode |-> statusCode, body |-> body, expiresAt |-> t + ttl]
     ELSE records[k]]

\* one pass of InMemoryIdempotencyStore.cleanup
IdemSweep(records, t) ==
  [k \in {x \in DOMAIN records : ~(t > records[x].expiresAt)} |-> records[k]]

\* responseCapture: the status is StatusOK until the handler writes one
\* (0 stands for a handler that calls no WriteHeader)
CapturedStatus(written_) == IF written_ = 0 THEN StatusOK ELSE written_

IdleReq ==
  [pc |-> "idle", op |-> "none", method |-> "", userID |-> "", key |-> "",
   scopedKey |-> "", capture |-> FALSE, statusCode |-> 0, body |-> "",
   replayed |-> FALSE,  \* the response carries X-Idempotent-Replayed: true
   invoked |-> FALSE,   \* history: next.ServeHTTP was called
   due |-> FALSE,       \* history: a request of this user and key got a 2xx
                        \* response stored at most the TTL before this one came
   again |-> FALSE,     \* history: the handler answered this request with a 2xx
                        \* response at most the TTL after a 2xx response to
                        \* another request of this user and key was stored
   afterFailure |-> FALSE,  \* history: the last POST or PATCH with this scoped
                        \* key that completed before this one came had its
                        \* handler called and answered outside 200..299
   prior |-> NoRecord]  \* history: the record stored under the key as it came

SetReq(p, rec) ==
  /\ proc' = [proc EXCEPT ![p] = IF rec.pc = "idle" THEN IdleReq ELSE rec]
  /\ ret' = IF rec.pc = "idle" THEN rec ELSE IdleReq
  /\ opsStarted' = IF proc[p].pc = "idle" THEN opsStarted + 1 ELSE opsStarted
  /\ idemLast' = IF rec.pc = "idle" /\ rec.method \in {"POST", "PATCH"} /\ rec.key # ""
                 THEN [k \in (DOMAIN idemLast) \cup {rec.scopedKey} |->
                         IF k = rec.scopedKey
                         THEN [statusCode |-> rec.statusCode, invoked |-> rec.invoked]
                         ELSE idemLast[k]]
                 ELSE idemLast
  /\ UNCHANGED <<store, written, lastWrite, adapter, aux>>

\* the middleware up to next.ServeHTTP: Store.Get, and the replay on a hit
IdempotencyBegin(p, env) ==
  /\ CanBegin(p, env)
  /\ \E method \in env.methods, u \in env.userHeaders, k \in env.keys :
       LET scopedKey == ScopedKey(u, k)
           record    == IdemGet(idemRecords, scopedKey, now)
           req == [IdleReq EXCEPT
                     !.op = "request", !.method = method, !.userID = u, !.key = k,
                     !.scopedKey = scopedKey,
                     !.due = /\ <<u, k>> \in DOMAIN idemDone
                             /\ now <= idemDone[<<u, k>>] + env.ttl,
                     !.afterFailure =
                        /\ scopedKey \in DOMAIN idemLast
                        /\ idemLast[scopedKey].invoked
                        /\ ~(idemLast[scopedKey].statusCode >= 200
                             /\ idemLast[scopedKey].statusCode < 300),
                     !.prior = IF scopedKey \in DOMAIN idemRecords
                               THEN [found |-> TRUE,
                                     statusCode |-> idemRecords[scopedKey].statusCode,
                                     body |-> idemRecords[scopedKey].body]
                               ELSE NoRecord]
       IN IF method \notin {"POST", "PATCH"} \/ k = ""
          THEN SetReq(p, [req EXCEPT !.pc = "next"])
          ELSE IF record.found
          THEN SetReq(p, [req EXCEPT !.pc = "idle", !.replayed = TRUE,
                                     !.statusCode = record.statusCode,
                                     !.body = record.body])
          ELSE SetReq(p, [req EXCEPT !.pc = "next", !.capture = TRUE])
  /\ UNCHANGED <<now, idemRecords, idemDone>>

\* next.ServeHTTP, and Store.Set of a captured 2xx response
IdempotencyFinish(p, env) ==
  /\ proc[p].pc = "next"
  /\ \E status \in env.statuses, body \in env.bodies :
       LET rec        == proc[p]
           statusCode == CapturedStatus(status)
           cached     == rec.capture /\ statusCode >= 200 /\ statusCode < 300
       IN /\ SetReq(p, [rec EXCEPT !.pc = "idle", !.invoked = TRUE,
                                   !.statusCode = statusCode, !.body = body,
                                   !.again = /\ cached
                                             /\ <<rec.userID, rec.key>> \in DOMAIN idemDone
                                             /\ now <= idemDone[<<rec.userID, rec.key>>]
                                                         + env.ttl])
          /\ idemRecords' = IF cached
                            THEN IdemSet(idemRecords, rec.scopedKey, statusCode, body,
                                         env.ttl, now)
                            ELSE idemRecords
          /\ idemDone' = IF cached
                         THEN [x \in (DOMAIN idemDone) \cup {<<rec.userID, rec.key>>} |->
                                 IF x = <<rec.userID, rec.key>> THEN now ELSE idemDone[x]]
                         ELSE idemDone
  /\ UNCHANGED now

\* the cleanup goroutine wakes up
IdempotencyCleanup ==
  /\ \E k \in DOMAIN idemRecords : now > idemRecords[k].expiresAt
  /\ idemRecords' = IdemSweep(idemRecords, now)
  /\ UNCHANGED <<store, now, proc, ret, opsStarted, written, lastWrite, adapter, idemDone,
                 idemLast, aux>>

IdemEnv ==
  [methods |-> {"GET", "POST", "PATCH"}, userHeaders |-> {"", "u1"},
   keys |-> {"", "k1"}, statuses |-> {0, 201, 409}, bodies |-> {"a", "b"},
   ttl |-> IdempotencyTTL, ticks |-> {1}, maxTime |-> MaxIdemTime,
   maxOps |-> MaxIdemOps, idle |-> IdleReq]

InitIdem ==
  /\ store = <<>>
  /\ now = 0
  /\ proc = [p \in Procs |-> IdleReq]
  /\ ret = IdleReq
  /\ opsStarted = 0
  /\ written = {}
  /\ lastWrite = NoWriteRecord
  /\ adapter = "inmemory"
  /\ idemRecords = <<>>
  /\ idemDone = <<>>
  /\ idemLast = <<>>
  /\ InitAux

NextIdem ==
  \/ \E p \in Procs : IdempotencyBegin(p, IdemEnv)
  \/ \E p \in Procs : IdempotencyFinish(p, IdemEnv)
  \/ IdempotencyCleanup
  \/ Tick(IdemEnv)

SpecIdem == InitIdem /\ [][NextIdem]_vars

\* three POST requests of one user with one key, two of them in flight at a time
OverlapEnv ==
  [methods |-> {"POST"}, userHeaders |-> {"u1"}, keys |-> {"k1"},
   statuses |-> {201, 409}, bodies |-> {"a", "b"},
   ttl |-> IdempotencyTTL, ticks |-> {1}, maxTime |-> MaxIdemTime,
   maxOps |-> MaxOverlapOps, idle |-> IdleReq]

NextOverlap ==
  \/ \E p \in Procs : IdempotencyBegin(p, OverlapEnv)
  \/ \E p \in Procs : IdempotencyFinish(p, OverlapEnv)
  \/ IdempotencyCleanup
  \/ Tick(OverlapEnv)

SpecOverlap == InitIdem /\ [][NextOverlap]_vars

\* ------------------------------------------------------------------------
\* Properties of the service under concurrent requests
\* ------------------------------------------------------------------------
\* a service call returned in the last step
Returned == ret.op # "none"

\* a mutation returned with success in the last step, no other call having
\* been in flight while it ran
ReturnedAlone ==
  Returned /\ ret.op \in Mutations /\ ret.res.code = "OK" /\ ~ret.conc

\* C3: no two successful writes for the same user id carry the same version
\* number.
C3_NoVersionWrittenTwice == ~lastWrite.again

\* C5: every cart snapshot written over an existing row of the user has a
\* version strictly greater than the version of the row it replaces
\* (TouchCart and GetOrCreateCart included).
C5_VersionStrictlyIncreases ==
  lastWrite.old # 0 => lastWrite.new > lastWrite.old

ItemsOf(s) ==
  [u \in Users |->
     IF u \in DOMAIN s
     THEN {[productID |-> s[u].items[i].productID,
            quantity  |-> s[u].items[i].quantity,
            unitPrice |-> s[u].items[i].unitPrice] : i \in 1..Len(s[u].items)}
     ELSE {}]

\* the cart GetOrCreateCart gives the mutation m when it runs alone on s at
\* time t
CartFor(s, m, t) ==
  IF m.user \in DOMAIN s /\ ~IsExpired(s[m.user], t)
  THEN s[m.user] ELSE NewCart(m.user, 0, t)

\* the store after the successful mutation m has run alone on the store s at
\* time t; a mutation that fails when run alone leaves the store as it is
SerialApply(s, m, t) ==
  IF m.op = "AddItem"
  THEN LET d == CartAddItem(CartFor(s, m, t),
                            NewCartItem(m.productID, m.quantity, m.unitPrice, 0, t), t)
       IN PutRow(s, IncrementVersion(d.cart, t))
  ELSE IF m.op = "MergeGuestCart"
  THEN IF m.guestID \in DOMAIN s
       THEN RepoDeleteCart(PutRow(s, IncrementVersion(
                                        MergeCarts(CartFor(s, m, t), s[m.guestID], t), t)),
                           m.guestID).store
       ELSE PutRow(s, CartFor(s, m, t))
  ELSE IF m.user \notin DOMAIN s \/ IsExpired(s[m.user], t) THEN s
  ELSE IF m.op = "ClearCart"
  THEN PutRow(s, IncrementVersion(CartClear(s[m.user], t), t))
  ELSE IF m.op = "RemoveItem"
  THEN PutRow(s, IncrementVersion(CartRemoveItem(s[m.user], m.itemID, t).cart, t))
  ELSE IF m.op = "UpdateItemQuantity"
  THEN PutRow(s, IncrementVersion(
                   CartUpdateItemQuantity(s[m.user], m.itemID, m.quantity, t).cart, t))
  ELSE s

\* the successful mutations among the calls ms, applied in the order ms
RECURSIVE SerialRun(_, _, _)
SerialRun(s, ms, t) ==
  IF ms = <<>> THEN s
  ELSE SerialRun(IF Head(ms).op \in Mutations /\ Head(ms).code = "OK"
                 THEN SerialApply(s, Head(ms), t) ELSE s,
                 Tail(ms), t)

\* C1: whatever the interleaving of concurrent mutations on a user, the carts
\* persisted at the end hold what the successful mutations give when applied
\* one after the other in some order.  Stated for the histories of two
\* overlapping calls that start from the empty store with the clock standing
\* still: the call that returns last and the call that returned during it.
C1_Serializable ==
  (Returned /\ ret.op \in Mutations /\ opsStarted = 2 /\ now = 0
     /\ \A p \in Procs : proc[p].pc = "idle") =>
    \A m \in ret.peers :
      \/ m.op \notin Mutations
      \/ ItemsOf(store) = ItemsOf(SerialRun(<<>>, <<m, Summary(ret)>>, now))
      \/ ItemsOf(store) = ItemsOf(SerialRun(<<>>, <<Summary(ret), m>>, now))

\* C8: two concurrent AddItem calls for the same product of the same user that
\* both succeed leave one item for the product whose quantity is the quantity
\* stored before plus both added quantities; when that sum exceeds
\* MaxQuantityPerItem the call that returns later fails with
\* QUANTITY_LIMIT_EXCEEDED.
C8_ConcurrentAddsSum ==
  (Returned /\ ret.op = "AddItem") =>
    \A m \in ret.peers :
      (m.op = "AddItem" /\ m.user = ret.user /\ m.productID = ret.productID
         /\ m.code = "OK" /\ ret.res.code \in {"OK", "QUANTITY_LIMIT_EXCEEDED"}) =>
        LET sum == m.seenQty + m.quantity + ret.quantity
        IN IF sum > MaxQuantityPerItem
           THEN ret.res.code = "QUANTITY_LIMIT_EXCEEDED"
           ELSE /\ ret.res.code = "OK"
                /\ ret.user \in DOMAIN store
                /\ QtyOfProduct(store[ret.user].items, ret.productID) = sum
                /\ Cardinality({i \in 1..Len(store[ret.user].items) :
                                  store[ret.user].items[i].productID = ret.productID}) = 1

\* C2: of two concurrent UpdateItemQuantity calls on a user that load the same
\* stored version and both attempt the conditional save (neither names a
\* version of its own, so a CONFLICT comes from the save), at most one
\* succeeds and the other returns CONFLICT, having written nothing.
C2_OneUpdateWins ==
  (Returned /\ ret.op = "UpdateItemQuantity" /\ ret.expectedVersion = 0
     /\ ret.res.code \in {"OK", "CONFLICT"}) =>
    \A m \in ret.peers :
      (m.op = "UpdateItemQuantity" /\ m.user = ret.user /\ m.expectedVersion = 0
         /\ m.seen = ret.seen /\ m.seen # 0 /\ m.code \in {"OK", "CONFLICT"}) =>
        /\ ~(m.code = "OK" /\ ret.res.code = "OK")
        /\ ret.res.code = "CONFLICT" => ret.pv = 0

\* C9: of two concurrent RemoveItem calls for the same item of a user, the item
\* being in the cart each of them loads, exactly one succeeds and the other
\* fails with ITEM_NOT_FOUND.
C9_OneRemoveWins ==
  (Returned /\ ret.op = "RemoveItem" /\ ret.seenQty > 0) =>
    \A m \in ret.peers :
      (m.op = "RemoveItem" /\ m.user = ret.user /\ m.itemID = ret.itemID
         /\ m.seenQty > 0) =>
        \/ m.code = "OK" /\ ret.res.code = "ITEM_NOT_FOUND"
        \/ m.code = "ITEM_NOT_FOUND" /\ ret.res.code = "OK"

\* an UpdateItemQuantity returned whose caller named a version other than the
\* one stored
ReturnedStale ==
  /\ Returned /\ ret.op = "UpdateItemQuantity"
  /\ ret.expectedVersion > 0 /\ ret.seen # 0 /\ ret.expectedVersion # ret.seen

\* C7 as stated: UpdateItemQuantity called with an expected version above 0
\* that differs from the stored version returns CONFLICT with expected_version
\* and current_version, writes nothing and publishes no event.
C7_StaleVersionConflict ==
  ReturnedStale =>
    /\ ret.res.code = "CONFLICT"
    /\ ret.res.expected = ret.expectedVersion /\ ret.res.current = ret.seen
    /\ ret.pv = 0 /\ lastWrite = NoWriteRecord
    /\ ret.pubs = <<>>

\* C7: UpdateItemQuantity called with an expected version above 0 that differs
\* from the version of the stored, unexpired cart writes nothing and publishes
\* no event, and unless the load fails (PERSISTENCE_ERROR) it returns CONFLICT
\* with expected_version the caller's version and current_version the stored
\* one.
C7_StaleVersionConflictLive ==
  (ReturnedStale /\ ret.seenLive) =>
    /\ ret.res.code # "PERSISTENCE_ERROR" =>
         /\ ret.res.code = "CONFLICT"
         /\ ret.res.expected = ret.expectedVersion /\ ret.res.current = ret.seen
    /\ ret.pv = 0 /\ lastWrite = NoWriteRecord
    /\ ret.pubs = <<>>

\* a call that named version 1 for a stored, unexpired cart of version 2 has
\* returned CONFLICT
C7_Witness ==
  /\ ReturnedStale /\ ret.seenLive
  /\ ret.expectedVersion = 1 /\ ret.seen = 2
  /\ ret.res.code = "CONFLICT" /\ ret.res.expected = 1 /\ ret.res.current = 2
  /\ store[ret.user].version = 2

\* a SaveCartWithVersion call returned in the last step
ReturnedSave == Returned /\ ret.op = "SaveCartWithVersion"

\* no row was stored, or the stored version was the expected one, when the
\* call tried to write
VersionMatched == ret.seen = 0 \/ ret.seen = ret.expectedVersion

\* C6 as stated: SaveCartWithVersion succeeds, writing the row, if and only if
\* no row exists for the user or the stored version equals the expected one;
\* otherwise it fails with CONFLICT whose current_version is the stored
\* version, and writes nothing.
C6_SaveIffVersionMatches ==
  ReturnedSave =>
    IF VersionMatched
    THEN ret.res.code = "OK" /\ ret.pv = ret.cart.version
    ELSE /\ ret.res.code = "CONFLICT"
         /\ ret.res.expected = ret.expectedVersion /\ ret.res.current = ret.seen
         /\ ret.pv = 0

\* C6: a SaveCartWithVersion call whose store call does not fail (the in-memory
\* adapter never fails, a failed DynamoDB call returns PERSISTENCE_ERROR and
\* writes nothing) succeeds, writing the row, if and only if no row exists for
\* the user or the stored version equals the expected one; otherwise it
\* returns CONFLICT with the expected version and writes nothing.  The
\* current_version of the conflict is the stored version in memory; with
\* DynamoDB it is the version a second read finds, which is the stored version
\* when that read succeeds and no other call ran meanwhile, and 0 when the read
\* fails or finds no row.
C6_SaveIffVersionMatchesNoFault ==
  ReturnedSave =>
    /\ ret.res.code = "PERSISTENCE_ERROR" => adapter = "dynamodb" /\ ret.pv = 0
    /\ ret.res.code # "PERSISTENCE_ERROR" =>
         IF VersionMatched
         THEN ret.res.code = "OK" /\ ret.pv = ret.cart.version
         ELSE /\ ret.res.code = "CONFLICT"
              /\ ret.res.expected = ret.expectedVersion
              /\ ret.pv = 0 /\ lastWrite = NoWriteRecord
              /\ ret.res.current = IF adapter = "inmemory" THEN ret.seen ELSE ret.reread
              /\ (~ret.conc /\ ret.res.current # 0) => ret.res.current = ret.seen

\* a conditional save expecting version 1 met a row of version 2 and returned
\* CONFLICT naming both, the row staying as it was
C6_Witness ==
  /\ ReturnedSave /\ ret.expectedVersion = 1 /\ ret.seen = 2
  /\ ret.res.code = "CONFLICT" /\ ret.res.expected = 1 /\ ret.res.current = 2
  /\ store[ret.user].version = 2

\* C10: once a POST or PATCH of user U with Idempotency-Key K has completed
\* with a 2xx response, every POST or PATCH of U with K that comes no later
\* than the TTL after it gets the stored status code and body, with
\* X-Idempotent-Replayed: true, and the handler is not called for it.
C10_ReplayAfterSuccess ==
  (Returned /\ ret.method \in {"POST", "PATCH"} /\ ret.due) =>
    /\ ret.replayed /\ ~ret.invoked
    /\ ret.prior.found
    /\ ret.statusCode = ret.prior.statusCode /\ ret.body = ret.prior.body

\* a PATCH that came a TTL after the 201 response with body "a" of its user and
\* key was stored got that response replayed
C10_Witness ==
  /\ Returned /\ ret.method = "PATCH" /\ ret.due /\ ret.userID = "u1"
  /\ now = IdempotencyTTL /\ idemDone[<<ret.userID, ret.key>>] = 0
  /\ ret.replayed /\ ~ret.invoked /\ ret.statusCode = 201 /\ ret.body = "a"

\* C11: of the POST and PATCH requests of one user with one Idempotency-Key
\* that come within the TTL, overlapping ones included, the handler runs for
\* one only when it answers 2xx: no handler answers 2xx while a 2xx response
\* stored for the same user and key is still within its TTL.
C11_HandlerRunsOnce ==
  (Returned /\ ret.method \in {"POST", "PATCH"} /\ ret.key # ""
     /\ ret.invoked /\ ret.statusCode >= 200 /\ ret.statusCode < 300)
    => ~ret.again

\* C12: a POST or PATCH whose handler answered outside 200..299 stores no
\* record, so the next request with its scoped key has the handler called
\* again and is not marked as replayed.
C12_FailureNotCached ==
  (Returned /\ ret.method \in {"POST", "PATCH"} /\ ret.key # "" /\ ret.afterFailure)
    => ret.invoked /\ ~ret.replayed

\* the quantities of all items of all stored carts
StoredQuantities ==
  UNION {{store[u].items[i].quantity : i \in 1..Len(store[u].items)} : u \in DOMAIN store}

\* C13: after any sequence of calls of the service, every item of every
\* stored cart has a quantity of at least 1 and at most 99.
C13_QuantityInRange ==
  \A q \in StoredQuantities : q >= 1 /\ q <= 99

\* UpdateItemQuantity set an item of a cart of 100 items from 1 to 99
C13_Witness ==
  /\ Returned /\ ret.op = "UpdateItemQuantity" /\ ret.res.code = "OK"
  /\ ret.quantity = MaxQuantityPerItem /\ ret.seenQty = MinQuantityPerItem
  /\ QtyOfItem(store[ret.user].items, ret.itemID) = MaxQuantityPerItem
  /\ Len(store[ret.user].items) = MaxItemsPerCart

\* C14 as stated: after any sequence of calls of the service every stored
\* cart has at least 1 and at most 100 items.
C14_ItemCountInRange ==
  \A u \in DOMAIN store :
     Len(store[u].items) >= 1 /\ Len(store[u].items) <= MaxItemsPerCart

\* C14, amended: after any sequence of calls of the service every stored
\* cart has at most 100 items; a stored cart may be empty.
C14_ItemCountAtMostMax ==
  \A u \in DOMAIN store : Len(store[u].items) <= MaxItemsPerCart

\* AddItem of a product the cart does not hold was refused with
\* CART_LIMIT_EXCEEDED, the stored cart keeping its 100 items
C14_Witness ==
  /\ Returned /\ ret.op = "AddItem" /\ ret.res.code = "CART_LIMIT_EXCEEDED"
  /\ ret.productID = ProductName(0)
  /\ Len(store[ret.user].items) = MaxItemsPerCart

\* no two items of the cart c share a product id
ProductsUnique(c) ==
  \A i, j \in 1..Len(c.items) : i # j => c.items[i].productID # c.items[j].productID

\* C15: after any sequence of AddItem, UpdateItemQuantity, RemoveItem, Clear
\* and MergeCarts calls on carts that began as new carts, no two items of
\* one cart share a product id.
C15_ProductUnique ==
  /\ \A u \in DOMAIN store : ProductsUnique(store[u])
  /\ ProductsUnique(ret.cart)

\* MergeCarts met a product held by both carts and appended a guest item
\* for a product the user cart did not hold
C15_Witness ==
  /\ Returned /\ ret.op = "MergeCarts"
  /\ ret.before # NilCart /\ ret.guest # NilCart
  /\ Len(ret.guest.items) = 2
  /\ Len(ret.before.items) = 1 /\ ret.before.items[1].productID = "p1"
  /\ Len(store[ret.user].items) = 2

\* AddItem was called for a product the cart held
ReturnedAddToHeld ==
  /\ Returned /\ ret.op = "AddItem"
  /\ FindItemByProductID(ret.before.items, ret.productID) # 0

\* the items of the cart c that hold the product
ItemsOfProduct(c, productID) ==
  {i \in 1..Len(c.items) : c.items[i].productID = productID}

\* what the claim says of an AddItem for a held product: one item for the
\* product afterwards, with the item id it had, the sum as its quantity and
\* the price of the added item when the sum is at most 99, and
\* QUANTITY_LIMIT_EXCEEDED when the sum is above 99
AddedToHeld ==
  LET idx == FindItemByProductID(ret.before.items, ret.productID)
      old == ret.before.items[idx]
      sum == old.quantity + ret.quantity
  IN /\ ItemsOfProduct(ret.cart, ret.productID) = {idx}
     /\ ret.cart.items[idx].itemID = old.itemID
     /\ IF sum <= MaxQuantityPerItem
        THEN /\ ret.res.code = "OK"
             /\ ret.cart.items[idx].quantity = sum
             /\ ret.cart.items[idx].unitPrice = ret.unitPrice
        ELSE /\ ret.res.code = "QUANTITY_LIMIT_EXCEEDED"
             /\ ret.cart = ret.before

\* two successful AddItem calls in a row for one product with one quantity
\* and price leave the items that one call with twice the quantity leaves
TwoAddsAsOne ==
  (/\ ret.prior.op = "AddItem" /\ ret.prior.code = "OK" /\ ret.res.code = "OK"
   /\ ret.prior.productID = ret.productID /\ ret.prior.quantity = ret.quantity
   /\ ret.prior.unitPrice = ret.unitPrice
   /\ FindItemByProductID(ret.prior.before.items, ret.productID) # 0)
    => LET idx == FindItemByProductID(ret.prior.before.items, ret.productID)
           old == ret.prior.before.items[idx]
       IN ret.cart.items = [ret.prior.before.items EXCEPT
                              ![idx] = [old EXCEPT
                                          !.quantity = old.quantity + 2 * ret.quantity,
                                          !.unitPrice = ret.unitPrice]]

\* C16 as stated: AddItem for a product the cart holds leaves one item for
\* the product, with its item id, the sum as its quantity and the price of
\* the added item, provided the sum is at most 99 (so two equal calls are as
\* one call with twice the quantity); above 99 the call fails with
\* QUANTITY_LIMIT_EXCEEDED.
C16_AddToHeldProduct ==
  ReturnedAddToHeld => AddedToHeld /\ TwoAddsAsOne

\* C16, amended: the same for an added quantity of at least 1; an added
\* quantity below 1 fails with INVALID_QUANTITY and leaves the cart as it was.
C16_AddToHeldProductValid ==
  ReturnedAddToHeld =>
    IF ret.quantity >= MinQuantityPerItem
    THEN AddedToHeld /\ TwoAddsAsOne
    ELSE ret.res.code = "INVALID_QUANTITY" /\ ret.cart = ret.before

\* a second AddItem of 30 units at price 7 for a product held with 30 units
\* at price 5 before the first: 90 units at price 7 under the old item id
C16_Witness ==
  /\ ReturnedAddToHeld /\ ret.res.code = "OK" /\ ret.quantity = 30
  /\ ret.prior.op = "AddItem" /\ ret.prior.code = "OK" /\ ret.prior.quantity = 30
  /\ ret.prior.productID = ret.productID
  /\ QtyOfProduct(ret.prior.before.items, ret.productID) = 30
  /\ QtyOfProduct(ret.cart.items, ret.productID) = 90
  /\ ret.cart.items[FindItemByProductID(ret.cart.items, ret.productID)].unitPrice = 7

\* MergeCarts was called with two carts
ReturnedMerge ==
  Returned /\ ret.op = "MergeCarts" /\ ret.before # NilCart /\ ret.guest # NilCart

\* C17: MergeCarts(u, g) gives each product held by both carts the larger
\* of the two quantities, never their sum, and leaves the items of u whose
\* product g does not hold as they were.
C17_MergeKeepsLarger ==
  ReturnedMerge =>
    \A i \in 1..Len(ret.before.items) :
       LET item == ret.before.items[i]
           held == {j \in 1..Len(ret.guest.items) :
                      ret.guest.items[j].productID = item.productID}
       IN /\ i <= Len(ret.cart.items)
          /\ ret.cart.items[i].productID = item.productID
          /\ held = {} => ret.cart.items[i] = item
          /\ \A j \in held :
                /\ ret.cart.items[i].quantity >= item.quantity
                /\ ret.cart.items[i].quantity >= ret.guest.items[j].quantity
                /\ ret.cart.items[i].quantity \in
                     {item.quantity, ret.guest.items[j].quantity}

\* the user cart held p1 with 30 units and p2, the guest cart p1 with 99
\* units only: the merged cart holds p1 with 99 units and p2 as before
C17_Witness ==
  /\ ReturnedMerge
  /\ Len(ret.before.items) = 2 /\ Len(ret.guest.items) = 1
  /\ ret.before.items[1].productID = "p1" /\ ret.before.items[1].quantity = 30
  /\ ret.guest.items[1].productID = "p1" /\ ret.guest.items[1].quantity = 99
  /\ ret.cart.items[1].quantity = 99
  /\ ret.cart.items[2] = ret.before.items[2]

\* C18: when MergeGuestCart(userID, guestID) found a guest cart stored and
\* returned success, no other call having run meanwhile, the repository
\* holds under userID the merged cart that was returned and holds no cart
\* under guestID.
C18_MergeMovesGuestCart ==
  (Returned /\ ret.op = "MergeGuestCart" /\ ret.res.code = "OK"
     /\ ret.guest # NilCart /\ ~ret.conc)
    => /\ ret.user \in DOMAIN store
       /\ store[ret.user] = ret.res.cart
       /\ ret.guestID \notin DOMAIN store

\* C19: ClearCart on a stored, unexpired cart, run alone on a working
\* repository, succeeds and persists the cart with no item and a version one
\* greater than before, so that a GetCart at that moment succeeds and
\* returns an empty item list.
C19_ClearPersistsEmpty ==
  (Returned /\ ret.op = "ClearCart" /\ ret.seenLive /\ ~ret.conc) =>
    /\ ret.res.code = "OK"
    /\ ret.user \in DOMAIN store
    /\ store[ret.user].items = <<>>
    /\ store[ret.user].version = ret.seen + 1
    /\ ~IsExpired(store[ret.user], now) =>
         LET r == ServiceGetCart(store, ret.user, now, FALSE)
         IN r.err = "OK" /\ r.cart.items = <<>>

\* ClearCart found the cart that AddItem had saved with version 2 and left
\* it stored, unexpired, without items and with version 3
C19_Witness ==
  /\ Returned /\ ret.op = "ClearCart" /\ ret.seenLive /\ ~ret.conc
  /\ ret.res.code = "OK" /\ ret.seen = 2
  /\ store[ret.user].version = 3 /\ store[ret.user].items = <<>>
  /\ ~IsExpired(store[ret.user], now)

\* C20: after every successful AddItem, UpdateItemQuantity, RemoveItem,
\* ClearCart, MergeGuestCart and TouchCart the cart the call persisted has
\* expires_at >= updated_at + 7 days, and its expires_at is not earlier than
\* the one stored before the call.
C20_ExpiryFollowsUpdate ==
  (Returned /\ ret.op \in Mutations \cup {"TouchCart"}
     /\ ret.res.code = "OK" /\ ret.pv # 0 /\ ~ret.conc)
    => /\ ret.cart.expiresAt >= ret.cart.updatedAt + CartExpirationDays
       /\ ret.cart.expiresAt >= ret.seenExp

\* C21: GET /v1/cart/{userID} for a stored cart whose expires_at is in the
\* past is answered with status 404, the status of a user with no cart.
C21_ExpiredReadsAsMissing ==
  (Returned /\ ret.op = "GetCart" /\ ret.seen # 0 /\ ~ret.seenLive)
    => /\ GetCartStatus(ret.res) = 404
       /\ GetCartStatus(ret.res) = GetCartStatus(Failure("CART_NOT_FOUND"))

\* the event a call of the service publishes once its save has succeeded
OwnEvent(op) ==
  CASE op = "GetOrCreateCart" -> "cart.created"
    [] op = "AddItem" -> "cart.item_added"
    [] op = "UpdateItemQuantity" -> "cart.item_updated"
    [] op = "RemoveItem" -> "cart.item_removed"
    [] op = "ClearCart" -> "cart.cleared"
    [] OTHER -> "none"

\* a call returned in the step in which it handed its own event to the
\* publisher
ReturnedPublished ==
  /\ Returned /\ ret.pubs # <<>>
  /\ ret.pubs[Len(ret.pubs)].type = OwnEvent(ret.op)

\* C22: for GetOrCreateCart, AddItem, UpdateItemQuantity, RemoveItem and
\* ClearCart the outcome of the publisher changes neither the value returned
\* nor the cart left in the store: whether the event was delivered or not,
\* the call returns success with the cart it saved (ClearCart: with nothing)
\* and the store holds that cart.
C22_PublisherOutcomeIgnored ==
  ReturnedPublished =>
    /\ ret.res.code = "OK"
    /\ ret.res.cart = IF ret.op = "ClearCart" THEN NilCart ELSE ret.cart
    /\ lastWrite.user = ret.user /\ lastWrite.new = ret.cart.version
    /\ ret.user \in DOMAIN store /\ store[ret.user] = ret.cart

\* AddItem saved the cart, the publisher failed on cart.item_added, and
\* the call returned the saved cart with success
C22_Witness ==
  /\ ReturnedPublished /\ ret.op = "AddItem"
  /\ ~ret.pubs[Len(ret.pubs)].delivered
  /\ ret.res.code = "OK" /\ Len(ret.res.cart.items) = 1
  /\ store[ret.user] = ret.res.cart

\* C23: a mutation of the cart service whose repository save failed with a
\* transport error answers PERSISTENCE_ERROR only after the save was attempted
\* again: at least two of its SaveCart calls have failed by then.
C23_FailedSaveRetried ==
  (Returned /\ ret.op \in Mutations /\ ret.saveFails >= 1)
    => /\ ret.saveFails >= 2
       /\ ret.res.code = "PERSISTENCE_ERROR"

\* ------------------------------------------------------------------------
\* Retry under every outcome of the wrapped function
\* ------------------------------------------------------------------------
\* the configuration WithRetry(ctx, maxAttempts, fn) hands to Retry
WithRetry(maxAttempts) == [DefaultRetryConfig EXCEPT !.MaxAttempts = maxAttempts]

RetryEnv ==
  [configs |-> {DefaultRetryConfig} \cup {WithRetry(n) : n \in 0..MaxRetryAttempts}
                 \cup {[DefaultRetryConfig EXCEPT !.RetryableFunc = f, !.Jitter = FALSE] :
                         f \in {"exceptConflict", "nil"}},
   errors  |-> {"nil", "CONFLICT", "PERSISTENCE_ERROR"},
   jitters |-> {-50, 0, 49}]     \* rand.Float64()*jitterRange*2 - jitterRange, in percent of delay

\* Retry returns res
RetryReturn(r, res) == [r EXCEPT !.pc = "done", !.res = res]

\* Retry(ctx, cfg, fn) is called
RetryBegin(env) ==
  /\ retry.pc \in {"idle", "done"}
  /\ retry.started < MaxRetryCalls
  /\ \E cfg \in env.configs :
       retry' = [IdleRetry EXCEPT !.pc = "attempt", !.cfg = cfg,
                                  !.delay = cfg.InitialDelay,
                                  !.started = retry.started + 1]
  /\ UNCHANGED <<cartVars, bulkheads, callers, breaker, mem, app>>

\* a loop that goes on after fn succeeded, as long as attempts are left
RetryAttemptPastSuccess(env) ==
  /\ retry.pc = "attempt"
  /\ \E err \in env.errors, jitter \in env.jitters :
       LET r    == [retry EXCEPT !.calls = Append(@, err), !.lastErr = err]
           cfg  == retry.cfg
       IN retry' =
            IF ~(retry.attempt < cfg.MaxAttempts) THEN RetryReturn(retry, retry.lastErr)
            ELSE IF retry.cancelled THEN RetryReturn(retry, "context canceled")
            ELSE IF retry.attempt = cfg.MaxAttempts - 1 THEN RetryReturn(r, err)
            ELSE [r EXCEPT !.pc = "wait", !.waitTime = retry.delay]
  /\ UNCHANGED <<cartVars, bulkheads, callers, breaker, mem, app>>

\* one pass of the loop up to its select: the loop condition, the context
\* check, fn() and the decisions on its error
RetryAttempt(env) ==
  /\ retry.pc = "attempt"
  /\ \E err \in env.errors, jitter \in env.jitters :
       LET r    == [retry EXCEPT !.calls = Append(@, err), !.lastErr = err]
           cfg  == retry.cfg
           waitTime == IF cfg.Jitter THEN retry.delay + (retry.delay * jitter) \div 100
                       ELSE retry.delay
       IN retry' =
            IF ~(retry.attempt < cfg.MaxAttempts) THEN RetryReturn(retry, retry.lastErr)
            ELSE IF retry.cancelled THEN RetryReturn(retry, "context canceled")
            ELSE IF err = "nil" THEN RetryReturn([r EXCEPT !.lastErr = retry.lastErr], "nil")
            ELSE IF cfg.RetryableFunc # "nil" /\ ~RetryableFunc(cfg.RetryableFunc, err)
            THEN RetryReturn(r, err)
            ELSE IF retry.attempt = cfg.MaxAttempts - 1 THEN RetryReturn(r, err)
            ELSE [r EXCEPT !.pc = "wait", !.waitTime = waitTime]
  /\ UNCHANGED <<cartVars, bulkheads, callers, breaker, mem, app>>

\* the select of the loop: the timer fires, or the context is done
RetryWait ==
  /\ retry.pc = "wait"
  /\ \E done \in {FALSE, retry.cancelled} :
       LET delay == retry.delay * retry.cfg.Multiplier
       IN retry' =
            IF done THEN RetryReturn(retry, "context canceled")
            ELSE [retry EXCEPT !.pc = "attempt", !.attempt = @ + 1,
                               !.delay = IF delay > retry.cfg.MaxDelay
                                         THEN retry.cfg.MaxDelay ELSE delay]
  /\ UNCHANGED <<cartVars, bulkheads, callers, breaker, mem, app>>

\* the caller's context is cancelled while Retry runs
RetryCancel ==
  /\ retry.pc \in {"attempt", "wait"}
  /\ ~retry.cancelled
  /\ retry' = [retry EXCEPT !.cancelled = TRUE, !.cancelledAt = Len(retry.calls)]
  /\ UNCHANGED <<cartVars, bulkheads, callers, breaker, mem, app>>

NextRetry ==
  \/ RetryBegin(RetryEnv)
  \/ RetryAttempt(RetryEnv)
  \/ RetryWait
  \/ RetryCancel

SpecRetry == Init /\ [][NextRetry]_vars

\* C24: once the wrapped function has returned a CONFLICT error, Retry under
\* DefaultRetryConfig or WithRetry has returned that error and that invocation
\* was the last: the function is not invoked again and Retry does not wait.
C24_ConflictNotRetried ==
  \A i \in 1..Len(retry.calls) :
    retry.calls[i] = "CONFLICT"
      => /\ i = Len(retry.calls)
         /\ retry.pc = "done"
         /\ retry.res = "CONFLICT"

\* ------------------------------------------------------------------------
\* Bulkhead: internal/resilience/bulkhead.go
\* ------------------------------------------------------------------------
\* NewBulkhead(cfg): an empty semaphore of capacity MaxConcurrent, nobody waiting
NewBulkhead(cfg) ==
  [name |-> cfg.Name, maxConcurrent |-> cfg.MaxConcurrent, maxWaiting |-> cfg.MaxWaiting,
   semaphore |-> 0,     \* len(b.semaphore)
   waiting |-> 0,
   calls |-> 0]         \* history: calls of Execute and ExecuteWithResult so far

\* errors that are not an AppError
ErrMaxWaiting == "bulkhead: max waiting requests exceeded"
ErrCanceled == "context canceled"

AppCodes ==
  {"CART_NOT_FOUND", "ITEM_NOT_FOUND", "CART_LIMIT_EXCEEDED", "QUANTITY_LIMIT_EXCEEDED",
   "INVALID_QUANTITY", "CART_EXPIRED", "CONFLICT", "SERVICE_UNAVAILABLE",
   "PERSISTENCE_ERROR", "INTERNAL_ERROR"}

\* errors.IsAppError(err): errors are named by their code when they are one
IsAppError(err) == err \in AppCodes

\* the AppError writeError answers with
WriteErrorCode(err) == IF IsAppError(err) THEN err ELSE "INTERNAL_ERROR"

WriteErrorStatus(err) == HTTPStatusForCode(WriteErrorCode(err))

\* a semaphore that never blocks
CanAcquireAlways(b) == TRUE

\* the send on b.semaphore can proceed: the channel has room
CanAcquire(b) == b.semaphore < b.maxConcurrent

BulkheadEnv ==
  [names   |-> {"dynamodb"},
   configs |-> [Name : {"dynamodb"}, MaxConcurrent : 0..MaxConcurrentCap,
                MaxWaiting : 1..MaxWaitingCap],
   fns     |-> {"Execute", "ExecuteWithResult"},
   errors  |-> {"nil", "PERSISTENCE_ERROR"}]

SetCaller(c, rec) ==
  /\ callers' = [callers EXCEPT ![c] = rec]
  /\ UNCHANGED <<cartVars, retry, breaker, mem, app>>

\* BulkheadManager.Get(name, cfg) for a name not yet known
BulkheadManagerGet(env) ==
  /\ \E name \in env.names, cfg \in env.configs :
       /\ name \notin DOMAIN bulkheads
       /\ bulkheads' = [n \in (DOMAIN bulkheads) \cup {name} |->
                          IF n = name THEN NewBulkhead([cfg EXCEPT !.Name = name])
                          ELSE bulkheads[n]]
  /\ UNCHANGED <<cartVars, retry, callers, breaker, mem, app>>

\* Execute and ExecuteWithResult up to the select: the waiting cap under b.mu
BulkheadExecute(c, env) ==
  /\ callers[c].pc \in {"idle", "done"}
  /\ \E name \in DOMAIN bulkheads, fn \in env.fns :
       LET b   == bulkheads[name]
           rec == [IdleCaller EXCEPT !.fn = fn, !.name = name]
       IN /\ b.calls < MaxBulkheadCalls
          /\ IF b.waiting >= b.maxWaiting
             THEN /\ SetCaller(c, [IdleCaller EXCEPT !.pc = "done", !.err = ErrMaxWaiting])
                  /\ bulkheads' = [bulkheads EXCEPT ![name].calls = @ + 1]
             ELSE /\ SetCaller(c, [rec EXCEPT !.pc = "select"])
                  /\ bulkheads' = [bulkheads EXCEPT ![name].waiting = @ + 1,
                                                     ![name].calls = @ + 1]

\* select: the send on b.semaphore goes through, fn starts
BulkheadAcquire(c) ==
  /\ callers[c].pc = "select"
  /\ CanAcquire(bulkheads[callers[c].name])
  /\ SetCaller(c, [callers[c] EXCEPT !.pc = "running", !.invoked = TRUE])
  /\ bulkheads' = [bulkheads EXCEPT ![callers[c].name].semaphore = @ + 1]

\* a ctx.Done() branch that returns past the deferred decrement
BulkheadCtxDoneNoDefer(c) ==
  /\ callers[c].pc = "select"
  /\ callers[c].cancelled
  /\ SetCaller(c, [IdleCaller EXCEPT !.pc = "done", !.err = ErrCanceled])
  /\ UNCHANGED bulkheads

\* select: ctx.Done() is ready
BulkheadCtxDone(c) ==
  /\ callers[c].pc = "select"
  /\ callers[c].cancelled
  /\ SetCaller(c, [callers[c] EXCEPT !.pc = "unwait", !.err = ErrCanceled])
  /\ UNCHANGED bulkheads

\* the context of a call in progress is cancelled
BulkheadCancel(c) ==
  /\ callers[c].pc \in {"select", "running"}
  /\ ~callers[c].cancelled
  /\ SetCaller(c, [callers[c] EXCEPT !.cancelled = TRUE])
  /\ UNCHANGED bulkheads

\* fn returns
BulkheadFnReturn(c, env) ==
  /\ callers[c].pc = "running"
  /\ \E err \in env.errors : SetCaller(c, [callers[c] EXCEPT !.pc = "release", !.err = err])
  /\ UNCHANGED bulkheads

\* deferred: <-b.semaphore
BulkheadRelease(c) ==
  /\ callers[c].pc = "release"
  /\ SetCaller(c, [callers[c] EXCEPT !.pc = "unwait"])
  /\ bulkheads' = [bulkheads EXCEPT ![callers[c].name].semaphore = @ - 1]

\* deferred: b.waiting-- under b.mu; Execute returns
BulkheadUnwait(c) ==
  /\ callers[c].pc = "unwait"
  /\ SetCaller(c, [IdleCaller EXCEPT !.pc = "done", !.err = callers[c].err])
  /\ bulkheads' = [bulkheads EXCEPT ![callers[c].name].waiting = @ - 1]

NextBulkhead ==
  \/ BulkheadManagerGet(BulkheadEnv)
  \/ \E c \in Callers : BulkheadExecute(c, BulkheadEnv)
  \/ \E c \in Callers : BulkheadAcquire(c)
  \/ \E c \in Callers : BulkheadCtxDone(c)
  \/ \E c \in Callers : BulkheadCancel(c)
  \/ \E c \in Callers : BulkheadFnReturn(c, BulkheadEnv)
  \/ \E c \in Callers : BulkheadRelease(c)
  \/ \E c \in Callers : BulkheadUnwait(c)

SpecBulkhead == Init /\ [][NextBulkhead]_vars

\* the goroutines running their function inside the bulkhead called name
Running(name) == {c \in Callers : callers[c].pc = "running" /\ callers[c].name = name}

\* C25: in every state, however the callers of Execute and ExecuteWithResult
\* interleave, the callers running their function inside one bulkhead are at
\* most MaxConcurrent.
C25_RunningAtMostMaxConcurrent ==
  \A name \in DOMAIN bulkheads :
    Cardinality(Running(name)) <= bulkheads[name].maxConcurrent

\* MaxConcurrent callers run at once, one through each entry point, and a
\* further caller is held at the select
C25_Witness ==
  \E name \in DOMAIN bulkheads :
    /\ bulkheads[name].maxConcurrent = 2
    /\ Cardinality(Running(name)) = 2
    /\ {callers[c].fn : c \in Running(name)} = {"Execute", "ExecuteWithResult"}
    /\ \E c \in Callers : callers[c].pc = "select" /\ callers[c].name = name

\* the error a refused call hands to writeError is of kind SERVICE_UNAVAILABLE
\* and is answered with status 503
Unavailable(err) ==
  /\ IsAppError(err)
  /\ WriteErrorCode(err) = "SERVICE_UNAVAILABLE"
  /\ WriteErrorStatus(err) = 503

\* C26: a call the bulkhead refused because its waiting cap was exhausted
\* returned an error of kind SERVICE_UNAVAILABLE, answered with status 503
\* (the open circuit breaker refuses with ErrOpenState, no AppError either).
C26_RejectionIsUnavailable ==
  \A c \in Callers :
    (callers[c].pc = "done" /\ callers[c].err = ErrMaxWaiting)
      => Unavailable(callers[c].err)

\* ------------------------------------------------------------------------
\* Circuit breaker: internal/resilience/circuit_breaker.go over gobreaker
\* ------------------------------------------------------------------------
ErrOpenState == "circuit breaker is open"
ErrTooManyRequests == "too many requests"

\* the trip rule without the failure ratio
ReadyToTripConsecutiveOnly(cfg, counts) == counts.ConsecutiveFailures >= cfg.FailureThreshold

\* Settings.ReadyToTrip
ReadyToTrip(cfg, counts) ==
  IF counts.ConsecutiveFailures >= cfg.FailureThreshold THEN TRUE
  ELSE IF counts.Requests >= 10
  THEN counts.TotalFailures * cfg.FailureRatio.den >= cfg.FailureRatio.num * counts.Requests
  ELSE FALSE

\* gobreaker setState: the new state opens a generation with cleared counts
SetState(b, state) ==
  [b EXCEPT !.state = state, !.generation = @ + 1, !.counts = NoCounts]

OnSuccess(counts) ==
  [counts EXCEPT !.TotalSuccesses = @ + 1, !.ConsecutiveSuccesses = @ + 1,
                 !.ConsecutiveFailures = 0]

OnFailure(counts) ==
  [counts EXCEPT !.TotalFailures = @ + 1, !.ConsecutiveFailures = @ + 1,
                 !.ConsecutiveSuccesses = 0]

\* the counts are kept for the failures ReadyToTrip judged
Event(b, kind, counts, to) ==
  [kind |-> kind, from |-> b.state, to |-> to,
   counts |-> IF kind = "failure" /\ b.state = "closed" THEN counts ELSE NoCounts]

\* Execute has returned err
BreakerDone(rec, err) ==
  [IdleCaller EXCEPT !.pc = "done", !.err = err, !.invoked = rec.invoked,
                     !.admittedIn = rec.admittedIn]

BreakerEnv ==
  [fns |-> {"Execute", "ExecuteWithResult"}, errors |-> {"nil", "PERSISTENCE_ERROR"},
   configs |-> {DefaultCircuitBreakerConfig,
                [DefaultCircuitBreakerConfig EXCEPT !.SuccessThreshold = 2]}]

BreakerStep(c, rec, b) ==
  /\ callers' = [callers EXCEPT ![c] = rec]
  /\ breaker' = b
  /\ UNCHANGED <<cartVars, retry, bulkheads, mem, app>>

\* NewCircuitBreaker(cfg) with a configuration of the caller's, before the
\* first call of Execute
BreakerNew(env) ==
  /\ breaker = NewCircuitBreaker(DefaultCircuitBreakerConfig)
  /\ \E cfg \in env.configs :
       /\ cfg # breaker.cfg
       /\ breaker' = NewCircuitBreaker(cfg)
  /\ UNCHANGED <<cartVars, retry, bulkheads, callers, mem, app>>

\* Execute up to the wrapped function: gobreaker's beforeRequest
BreakerExecute(c, env) ==
  /\ callers[c].pc \in {"idle", "done"}
  /\ breaker.calls < MaxBreakerCalls
  /\ \E fn \in env.fns :
       LET rec == [IdleCaller EXCEPT !.fn = fn, !.generation = breaker.generation,
                                     !.admittedIn = breaker.state]
           b   == [breaker EXCEPT !.calls = @ + 1]
       IN IF breaker.state = "open"
          THEN BreakerStep(c, BreakerDone(rec, ErrOpenState),
                           [b EXCEPT !.last = Event(breaker, "refused", breaker.counts, "open")])
          ELSE IF breaker.state = "half-open"
                  /\ breaker.counts.Requests >= breaker.cfg.MaxRequests
          THEN BreakerStep(c, BreakerDone(rec, ErrTooManyRequests),
                           [b EXCEPT !.last = Event(breaker, "refused", breaker.counts,
                                                    "half-open")])
          ELSE BreakerStep(c, [rec EXCEPT !.pc = "running", !.invoked = TRUE],
                           [b EXCEPT !.counts.Requests = @ + 1,
                                     !.last = Event(breaker, "admitted", breaker.counts,
                                                    breaker.state)])

\* the wrapped function returns: gobreaker's afterRequest, Execute returns err
BreakerFnReturn(c, env) ==
  /\ callers[c].pc = "running"
  /\ \E err \in env.errors :
       LET rec == BreakerDone(callers[c], err)
           ok  == OnSuccess(breaker.counts)
           ko  == OnFailure(breaker.counts)
       IN IF callers[c].generation # breaker.generation
          THEN BreakerStep(c, rec, [breaker EXCEPT !.last = Event(breaker, "stale",
                                                           breaker.counts, breaker.state)])
          ELSE IF err = "nil"
          THEN IF breaker.state = "half-open"
                  /\ ok.ConsecutiveSuccesses >= breaker.cfg.MaxRequests
               THEN BreakerStep(c, rec, [SetState(breaker, "closed") EXCEPT
                                           !.last = Event(breaker, "success", ok, "closed")])
               ELSE BreakerStep(c, rec, [breaker EXCEPT !.counts = ok,
                                           !.last = Event(breaker, "success", ok, breaker.state)])
          ELSE IF breaker.state = "half-open" \/ ReadyToTrip(breaker.cfg, ko)
          THEN BreakerStep(c, rec, [SetState(breaker, "open") EXCEPT
                                      !.last = Event(breaker, "failure", ko, "open"),
                                      !.tripCounts = ko])
          ELSE BreakerStep(c, rec, [breaker EXCEPT !.counts = ko,
                                      !.last = Event(breaker, "failure", ko, breaker.state)])

\* Settings.Interval has passed in the closed state: the counts are cleared
BreakerIntervalExpires ==
  /\ breaker.state = "closed"
  /\ breaker.counts # NoCounts
  /\ breaker' = [breaker EXCEPT !.generation = @ + 1, !.counts = NoCounts,
                                 !.last = Event(breaker, "interval", breaker.counts, "closed")]
  /\ UNCHANGED <<cartVars, retry, bulkheads, callers, mem, app>>

\* Settings.Timeout has passed in the open state: the breaker is half-open
BreakerTimeoutExpires ==
  /\ breaker.state = "open"
  /\ breaker' = [SetState(breaker, "half-open") EXCEPT
                   !.last = Event(breaker, "timeout", breaker.counts, "half-open")]
  /\ UNCHANGED <<cartVars, retry, bulkheads, callers, mem, app>>

NextBreaker ==
  \/ BreakerNew(BreakerEnv)
  \/ \E c \in BreakerCallers : BreakerExecute(c, BreakerEnv)
  \/ \E c \in BreakerCallers : BreakerFnReturn(c, BreakerEnv)
  \/ BreakerIntervalExpires
  \/ BreakerTimeoutExpires

SpecBreaker == Init /\ [][NextBreaker]_vars

\* the rule of the claim on the counts a failed call leaves
TripRule(counts) ==
  \/ counts.ConsecutiveFailures >= 5
  \/ /\ counts.Requests >= 10
     /\ 10 * counts.TotalFailures >= 6 * counts.Requests

\* C27: a failed call that the closed breaker counted opens it if and only if
\* the counts then show at least 5 consecutive failures, or at least 10 requests
\* with failures/requests >= 0.6; nothing else takes the breaker from closed to
\* open; and a call that entered Execute while the breaker was open has
\* returned ErrOpenState without the wrapped function being invoked.
C27_OpensExactlyOnRule ==
  /\ breaker.state = breaker.last.to
  /\ (breaker.last.kind = "failure" /\ breaker.last.from = "closed")
       => (breaker.last.to = "open" <=> TripRule(breaker.last.counts))
  /\ (breaker.last.from = "closed" /\ breaker.last.to = "open")
       => breaker.last.kind = "failure"
  /\ \A c \in BreakerCallers :
       callers[c].admittedIn = "open"
         => /\ callers[c].pc = "done"
            /\ callers[c].err = ErrOpenState
            /\ ~callers[c].invoked

\* the breaker was opened by the ratio rule alone, on ten counted requests,
\* and has since refused a call
C27_Witness ==
  /\ breaker.state = "open"
  /\ breaker.tripCounts.Requests >= 10
  /\ breaker.tripCounts.ConsecutiveFailures < 5
  /\ breaker.last.kind = "refused"
  /\ \E c \in BreakerCallers :
       callers[c].admittedIn = "open" /\ callers[c].err = ErrOpenState

\* ------------------------------------------------------------------------
\* The domain functions on carts at their limits: a full cart, a cart one
\* item short of full, small carts; quantities at and beyond both limits
\* ------------------------------------------------------------------------
RejectEnv ==
  [users |-> {"u1"}, guests |-> {}, mergers |-> {},
   products |-> {ProductName(1), ProductName(0)},
   quantities |-> {MinQuantityPerItem - 1, MinQuantityPerItem, MaxQuantityPerItem,
                   MaxQuantityPerItem + 1},
   prices |-> {7},
   updateQuantities |-> {MinQuantityPerItem - 1, 50, MaxQuantityPerItem + 1},
   maxOps |-> MaxRejectOps, idle |-> DomIdle]

InitReject ==
  /\ \E userCart \in SeedCarts("u1", 1)
                        \cup {Filled("u1", 1, MaxItemsPerCart),
                              Filled("u1", 1, MaxItemsPerCart - 1)} :
       store = [u \in {"u1"} |-> userCart]
  /\ now = 1
  /\ proc = [p \in Procs |-> IdleProc]
  /\ ret = DomIdle
  /\ opsStarted = 0
  /\ written = {}
  /\ lastWrite = NoWriteRecord
  /\ adapter = "inmemory"
  /\ idemRecords = <<>>
  /\ idemDone = <<>>
  /\ idemLast = <<>>
  /\ InitAux

NextReject ==
  \/ DomAddItem(RejectEnv)
  \/ DomUpdateItemQuantity(RejectEnv)
  \/ DomRemoveItem(RejectEnv)

SpecReject == InitReject /\ [][NextReject]_vars

\* C28: after AddItem, UpdateItemQuantity or RemoveItem returned an error, the
\* cart is the cart of before the call: the same items with the same
\* quantities and prices, and every other field as it was.
C28_ErrorLeavesCart ==
  (ret.op \in {"AddItem", "UpdateItemQuantity", "RemoveItem"} /\ ret.res.code # "OK")
    => /\ ret.cart = ret.before
       /\ store[ret.user] = ret.before

\* AddItem was refused by a full cart, after an AddItem that overflowed the
\* quantity of a held product was refused
C28_Witness ==
  /\ ret.op = "AddItem" /\ ret.res.code = "CART_LIMIT_EXCEEDED"
  /\ Len(ret.before.items) = MaxItemsPerCart
  /\ ret.cart = ret.before
  /\ ret.prior.op = "AddItem" /\ ret.prior.code = "QUANTITY_LIMIT_EXCEEDED"

\* ------------------------------------------------------------------------
\* The in-memory repository and the objects its callers hold:
\* internal/persistence/inmemory/repository.go
\* ------------------------------------------------------------------------
\* the zero CartItem, in the part of a backing array beyond a slice's length
ZeroItem == [productID |-> "", quantity |-> 0]

\* the cart value behind address a: its scalar fields and Items[0:len]
Deref(m, a) ==
  LET o == m.objs[a]
  IN [userID |-> o.userID, version |-> o.version,
      items |-> SubSeq(m.arrays[o.arr], 1, o.len)]

\* a cart object with the fields of o and the slice header <<arr, len>>
CartObject(o, arr, len) ==
  [userID |-> o.userID, version |-> o.version, arr |-> arr, len |-> len,
   passed |-> FALSE,    \* history: the object was handed to SaveCart
   got |-> FALSE,       \* history: the object was returned by GetCart
   dirty |-> FALSE]     \* history: the caller wrote to it after that

\* a copy that shares the backing array of c.Items
CopyCartAtShallow(m, a) ==
  LET o == m.objs[a]
  IN [mem  |-> [m EXCEPT !.objs = Append(@, CartObject(o, o.arr, o.len))],
      addr |-> Len(m.objs) + 1]

\* copyCart(c): a new array of len(c.Items) elements, copy, a new Cart
CopyCartAt(m, a) ==
  LET o     == m.objs[a]
      items == SubSeq(m.arrays[o.arr], 1, o.len)
  IN [mem  |-> [m EXCEPT !.arrays = Append(@, items),
                         !.objs = Append(@, CartObject(o, Len(m.arrays) + 1, o.len))],
      addr |-> Len(m.objs) + 1]

\* r.carts[userID] = addr
PutCart(carts, userID, addr) ==
  [u \in (DOMAIN carts) \cup {userID} |-> IF u = userID THEN addr ELSE carts[u]]

MemEnv ==
  [users |-> {"u1"}, products |-> {"p1"},
   quantities |-> {1},          \* of the items the caller appends
   initialItems |-> {<<>>, <<[productID |-> "p1", quantity |-> 1]>>},
   newQuantities |-> {2},       \* the caller writes into items
   versions |-> 1..MaxMemVersion,
   newVersions |-> {MaxMemVersion}]

MemStep(m) ==
  /\ mem' = m
  /\ UNCHANGED <<cartVars, retry, bulkheads, callers, breaker, app>>

\* the caller builds a cart object: cart.NewCart(userID), with or without a
\* first item
MemNewCart(env) ==
  /\ Len(mem.objs) < MaxMemObjects
  /\ mem.news < MaxMemNew
  /\ \E u \in env.users, items \in env.initialItems :
       LET o == [userID |-> u, version |-> 1]
       IN MemStep([mem EXCEPT !.arrays = Append(@, items),
                              !.objs = Append(@, CartObject(o, Len(mem.arrays) + 1,
                                                            Len(items))),
                              !.refs = @ \cup {Len(mem.objs) + 1},
                              !.news = @ + 1,
                              !.lastGet = NoGet])

\* Repository.SaveCart(c)
MemSaveCart ==
  /\ Len(mem.objs) < MaxMemObjects
  /\ \E a \in mem.refs :
       LET r == CopyCartAt(mem, a)
           u == mem.objs[a].userID
       IN MemStep([r.mem EXCEPT !.carts = PutCart(@, u, r.addr),
                                !.objs[a].passed = TRUE,
                                !.saved = PutCart(@, u, Deref(mem, a)),
                                !.lastGet = NoGet])

\* Repository.SaveCartWithVersion(c, expectedVersion)
MemSaveCartWithVersion(env) ==
  /\ Len(mem.objs) < MaxMemObjects
  /\ \E a \in mem.refs, expectedVersion \in env.versions :
       LET r == CopyCartAt(mem, a)
           u == mem.objs[a].userID
       IN IF u \in DOMAIN mem.carts /\ mem.objs[mem.carts[u]].version # expectedVersion
          THEN MemStep([mem EXCEPT !.lastGet = NoGet])
          ELSE MemStep([r.mem EXCEPT !.carts = PutCart(@, u, r.addr),
                                     !.objs[a].passed = TRUE,
                                     !.saved = PutCart(@, u, Deref(mem, a)),
                                     !.lastGet = NoGet])

\* Repository.GetCart(userID)
MemGetCart(env) ==
  /\ Len(mem.objs) < MaxMemObjects
  /\ \E u \in env.users :
       IF u \notin DOMAIN mem.carts
       THEN MemStep([mem EXCEPT !.lastGet = NoGet])
       ELSE LET r == CopyCartAt(mem, mem.carts[u])
            IN MemStep([r.mem EXCEPT !.objs[r.addr].got = TRUE,
                                     !.refs = @ \cup {r.addr},
                                     !.lastGet = [found |-> TRUE, user |-> u,
                                                  value |-> Deref(r.mem, r.addr)]])

\* Repository.DeleteCart(userID)
MemDeleteCart(env) ==
  /\ \E u \in env.users :
       /\ u \in DOMAIN mem.carts
       /\ MemStep([mem EXCEPT !.carts = [v \in (DOMAIN mem.carts) \ {u} |-> mem.carts[v]],
                               !.saved = [v \in (DOMAIN mem.saved) \ {u} |-> mem.saved[v]],
                               !.lastGet = NoGet])

\* the caller has written to the object at a
Written(m, a) ==
  [m EXCEPT !.objs[a].dirty = m.objs[a].passed \/ m.objs[a].got, !.lastGet = NoGet,
            !.writes = @ + 1]

\* the caller assigns a field of a cart it holds: c.Version = v
MemSetVersion(env) ==
  \E a \in mem.refs, v \in env.newVersions :
    /\ mem.writes < MaxMemWrites
    /\ mem.objs[a].version # v
    /\ MemStep(Written([mem EXCEPT !.objs[a].version = v], a))

\* the caller assigns through the item list: c.Items[i].Quantity = q
MemSetQuantity(env) ==
  \E a \in mem.refs, q \in env.newQuantities :
    \E i \in 1..mem.objs[a].len :
      /\ mem.writes < MaxMemWrites
      /\ mem.arrays[mem.objs[a].arr][i].quantity # q
      /\ MemStep(Written([mem EXCEPT !.arrays[mem.objs[a].arr][i].quantity = q], a))

\* the caller appends: c.Items = append(c.Items, item), in place while the
\* backing array has room, else into a new array of twice the size
MemAppend(env) ==
  \E a \in mem.refs, pid \in env.products, q \in env.quantities :
    LET o    == mem.objs[a]
        old  == mem.arrays[o.arr]
        item == [productID |-> pid, quantity |-> q]
        cap  == IF o.len = 0 THEN 1 ELSE 2 * o.len
        new  == [i \in 1..cap |-> IF i <= o.len THEN old[i]
                                   ELSE IF i = o.len + 1 THEN item ELSE ZeroItem]
    IN /\ mem.writes < MaxMemWrites
       /\ o.len < MaxMemItems
       /\ IF o.len < Len(old)
          THEN MemStep(Written([mem EXCEPT !.arrays[o.arr][o.len + 1] = item,
                                           !.objs[a].len = o.len + 1], a))
          ELSE MemStep(Written([mem EXCEPT !.arrays = Append(@, new),
                                           !.objs[a].arr = Len(mem.arrays) + 1,
                                           !.objs[a].len = o.len + 1], a))

\* the caller removes as Cart.RemoveItem does: the last item takes the place
\* of the removed one and the slice is cut by one
MemRemoveItem ==
  \E a \in mem.refs :
    \E i \in 1..mem.objs[a].len :
      LET o == mem.objs[a]
      IN /\ mem.writes < MaxMemWrites
         /\ MemStep(Written([mem EXCEPT !.arrays[o.arr][i] = mem.arrays[o.arr][o.len],
                                         !.objs[a].len = o.len - 1], a))

NextMem ==
  \/ MemNewCart(MemEnv)
  \/ MemSaveCart
  \/ MemSaveCartWithVersion(MemEnv)
  \/ MemGetCart(MemEnv)
  \/ MemDeleteCart(MemEnv)
  \/ MemSetVersion(MemEnv)
  \/ MemSetQuantity(MemEnv)
  \/ MemAppend(MemEnv)
  \/ MemRemoveItem

SpecMem == Init /\ [][NextMem]_vars

\* C29: whatever the caller has written to the cart objects it passed to
\* SaveCart or SaveCartWithVersion or received from GetCart, the cart the
\* repository holds for a user, and the cart a GetCart just returned, is the
\* cart value that was saved last for that user.
C29_StoreUnaliased ==
  /\ DOMAIN mem.saved = DOMAIN mem.carts
  /\ \A u \in DOMAIN mem.carts : Deref(mem, mem.carts[u]) = mem.saved[u]
  /\ mem.lastGet.found => mem.lastGet.value = mem.saved[mem.lastGet.user]

\* GetCart returns a cart with an item after the caller changed both the
\* object it had saved and an object an earlier GetCart gave it
C29_Witness ==
  /\ mem.lastGet.found
  /\ mem.lastGet.value.items # <<>>
  /\ \E a \in mem.refs, b \in mem.refs :
       /\ mem.objs[a].passed /\ mem.objs[a].dirty
       /\ mem.objs[b].got /\ mem.objs[b].dirty
       /\ Deref(mem, a) # mem.lastGet.value
       /\ Deref(mem, b) # mem.lastGet.value

\* ------------------------------------------------------------------------
\* Application.RegisterShutdown and Application.Shutdown
\* ------------------------------------------------------------------------
AppEnv == [fns |-> {"closeRepository", "flushEvents"}, fails |-> BOOLEAN]

\* the error hook number i returns when it fails
HookError(i) == "hook " \o ToString(i) \o " failed"

\* a Shutdown that keeps the error of the hook that failed last
LastErr(firstErr, err) == IF err # "nil" THEN err ELSE firstErr

\* if firstErr == nil { firstErr = err }, for a hook that returned err
FirstErr(firstErr, err) == IF err # "nil" /\ firstErr = "nil" THEN err ELSE firstErr

AppStep(a) ==
  /\ app' = a
  /\ UNCHANGED <<cartVars, retry, bulkheads, callers, breaker, mem>>

\* RegisterShutdown(fn), also while a Shutdown runs
AppRegisterShutdown(env) ==
  /\ Len(app.shutdownFuncs) < MaxHooks
  /\ \E fn \in env.fns : AppStep([app EXCEPT !.shutdownFuncs = Append(@, fn)])

\* Shutdown up to its loop: the hooks are copied under a.mu
AppShutdownBegin ==
  /\ app.pc \in {"idle", "done"}
  /\ app.shutdowns < MaxShutdowns
  /\ AppStep([app EXCEPT !.pc = "loop", !.funcs = app.shutdownFuncs,
                          !.i = Len(app.shutdownFuncs), !.firstErr = "nil",
                          !.res = "none", !.invoked = <<>>, !.shutdowns = @ + 1])

\* one pass of the loop: funcs[i](ctx) returns, firstErr keeps the first error
AppShutdownHook(env) ==
  /\ app.pc = "loop"
  /\ app.i >= 1
  /\ \E fail \in env.fails :
       LET err == IF fail THEN HookError(app.i) ELSE "nil"
       IN AppStep([app EXCEPT !.invoked = Append(@, [index |-> app.i, fn |-> app.funcs[app.i],
                                                     err |-> err]),
                              !.firstErr = FirstErr(@, err),
                              !.i = @ - 1])

\* the loop is over: Shutdown returns firstErr
AppShutdownReturn ==
  /\ app.pc = "loop"
  /\ app.i = 0
  /\ AppStep([app EXCEPT !.pc = "done", !.res = app.firstErr])

NextApp ==
  \/ AppRegisterShutdown(AppEnv)
  \/ AppShutdownBegin
  \/ AppShutdownHook(AppEnv)
  \/ AppShutdownReturn

SpecApp == Init /\ [][NextApp]_vars

\* the positions of the invocations that returned an error
Failed(invoked) == {k \in 1..Len(invoked) : invoked[k].err # "nil"}

\* C30: when Shutdown has returned, the hooks that were registered when it
\* took its list have each been invoked once, the one registered last first
\* and so on down to the first, whatever they returned, and Shutdown returned
\* the error of the earliest invocation that failed, or nil if none did.
C30_ShutdownRunsHooksInReverse ==
  app.pc = "done"
    => /\ Len(app.invoked) = Len(app.funcs)
       /\ \A k \in 1..Len(app.invoked) :
            /\ app.invoked[k].index = Len(app.funcs) - k + 1
            /\ app.invoked[k].fn = app.funcs[Len(app.funcs) - k + 1]
       /\ app.res = IF Failed(app.invoked) = {} THEN "nil"
                    ELSE app.invoked[CHOOSE k \in Failed(app.invoked) :
                                       \A j \in Failed(app.invoked) : k <= j].err

\* three hooks: the last registered succeeded, the two before it failed, and
\* Shutdown returned the error of the second
C30_Witness ==
  /\ app.pc = "done"
  /\ Len(app.funcs) = 3
  /\ Len(app.invoked) = 3
  /\ app.invoked[1].err = "nil"
  /\ app.invoked[2].err = HookError(2)
  /\ app.invoked[3].err = HookError(1)
  /\ app.res = HookError(2)

\* the events of type t among pubs
EventsOfType(pubs, t) == {k \in 1..Len(pubs) : pubs[k].type = t}

\* the save of the call's own mutation has succeeded
OwnSaveDone(rec) ==
  IF rec.op = "GetOrCreateCart" THEN rec.created
  ELSE rec.pv # 0 /\ <<rec.user, rec.pv>> \in written

\* the events of a call follow its saves
EventsFollowSaves(rec) ==
  /\ \A k \in 1..Len(rec.pubs) : rec.pubs[k].type \in {"cart.created", OwnEvent(rec.op)}
  /\ Cardinality(EventsOfType(rec.pubs, "cart.created")) <= 1
  /\ EventsOfType(rec.pubs, "cart.created") # {} => rec.created
  /\ rec.op # "GetOrCreateCart"
       => /\ Cardinality(EventsOfType(rec.pubs, OwnEvent(rec.op))) <= 1
          /\ EventsOfType(rec.pubs, OwnEvent(rec.op)) # {} => OwnSaveDone(rec)

\* C31: a call has handed an event to the publisher only if the save of the
\* mutation the event is about had succeeded (cart.created: the save of the
\* new cart; the other four: the save of the changed cart), no more than one
\* event of a type per call, and a call that returned because a save failed
\* has published no event for the mutation that was not saved.
C31_EventOnlyAfterSave ==
  /\ \A p \in Procs : EventsFollowSaves(proc[p])
  /\ Returned
       => /\ EventsFollowSaves(ret)
          /\ (ret.saveFails >= 1 /\ ~ret.created) => ret.pubs = <<>>
          /\ (ret.saveFails >= 1 /\ ret.op # "GetOrCreateCart")
               => EventsOfType(ret.pubs, OwnEvent(ret.op)) = {}

\* AddItem for a user without a cart: the new cart was saved and cart.created
\* published, then the save of the cart with the item failed and no
\* cart.item_added was published
C31_Witness ==
  /\ Returned /\ ret.op = "AddItem"
  /\ ret.res.code = "PERSISTENCE_ERROR" /\ ret.saveFails = 1
  /\ ret.created
  /\ Len(ret.pubs) = 1 /\ ret.pubs[1].type = "cart.created"

\* C32: Retry has invoked fn at most cfg.MaxAttempts times; an invocation that
\* returned nil is the last one and Retry has returned nil; and when Retry
\* has returned after MaxAttempts invocations that all failed, it returned
\* the error of the last of them.
C32_RetryBounded ==
  /\ Len(retry.calls) <= IF retry.cfg.MaxAttempts > 0 THEN retry.cfg.MaxAttempts ELSE 0
  /\ \A i \in 1..Len(retry.calls) :
       retry.calls[i] = "nil"
         => i = Len(retry.calls) /\ retry.pc = "done" /\ retry.res = "nil"
  /\ (/\ retry.pc = "done"
      /\ retry.calls # <<>>
      /\ Len(retry.calls) = retry.cfg.MaxAttempts
      /\ \A i \in 1..Len(retry.calls) : retry.calls[i] # "nil")
       => retry.res = retry.calls[Len(retry.calls)]

\* three invocations under the default configuration failed, the last with
\* an error of its own, and Retry returned that one
C32_Witness ==
  /\ retry.pc = "done"
  /\ retry.cfg = DefaultRetryConfig
  /\ retry.calls = <<"PERSISTENCE_ERROR", "PERSISTENCE_ERROR", "CONFLICT">>
  /\ retry.res = "CONFLICT"

\* the predicate of the configuration exists and rejects err
Rejects(cfg, err) == cfg.RetryableFunc = "exceptConflict" /\ err = "CONFLICT"

\* C33: an invocation of fn that returned an error the RetryableFunc of the
\* configuration rejects is the last one, and Retry has returned that error
\* without a wait; once the context is cancelled while Retry is between
\* invocations, fn is not invoked again and Retry, where its loop has a pass in
\* which to observe the context (MaxAttempts > 0), returns the context's error.
C33_RetryStops ==
  /\ \A i \in 1..Len(retry.calls) :
       Rejects(retry.cfg, retry.calls[i])
         => /\ i = Len(retry.calls)
            /\ retry.pc = "done"
            /\ retry.res = retry.calls[i]
  /\ retry.cancelled
       => /\ Len(retry.calls) = retry.cancelledAt
          /\ (retry.pc = "done" /\ retry.cfg.MaxAttempts > 0)
               => retry.res = "context canceled"

\* the context was cancelled during the wait that followed a first failed
\* invocation, and Retry returned the context's error with attempts left
C33_Witness ==
  /\ retry.pc = "done"
  /\ retry.cancelled
  /\ retry.cfg.MaxAttempts = 3
  /\ retry.calls = <<"PERSISTENCE_ERROR">>
  /\ retry.res = "context canceled"

\* a step of the breaker as the claim describes the half-open state: the
\* breaker leaves open only to half-open; while half-open it admits a call only
\* if fewer than 3 were admitted since the timeout, closes exactly on the
\* success that is the SuccessThreshold-th consecutive one, opens exactly on a
\* failure of a probe, and changes state in no other way
HalfOpenStep ==
  /\ (breaker.state = "open" /\ breaker'.state # "open")
       => breaker'.state = "half-open" /\ breaker'.last.kind = "timeout"
  /\ breaker.state = "half-open"
       => /\ breaker'.last.kind = "admitted" => breaker.counts.Requests < 3
          /\ breaker'.state = "closed"
               <=> /\ breaker'.last.kind = "success"
                   /\ breaker.counts.ConsecutiveSuccesses + 1 >= breaker.cfg.SuccessThreshold
          /\ breaker'.state = "open" <=> breaker'.last.kind = "failure"

\* C34: once the open timeout has elapsed the breaker is half-open and admits
\* at most 3 probe calls; SuccessThreshold consecutive probe successes close
\* it, any probe failure opens it again, nothing else leaves half-open.
C34_HalfOpenTransitions == [][HalfOpenStep]_vars

\* the goroutines blocked at the select of the bulkhead called name
Blocked(name) == {c \in Callers : callers[c].pc = "select" /\ callers[c].name = name}

\* a step in which Execute or ExecuteWithResult is entered refuses the caller
\* (the waiting count stays) exactly if MaxWaiting callers are blocked at the
\* select of that bulkhead
ExecuteStep ==
  \A name \in DOMAIN bulkheads :
    bulkheads'[name].calls = bulkheads[name].calls + 1
      => (bulkheads'[name].waiting = bulkheads[name].waiting
            <=> Cardinality(Blocked(name)) >= bulkheads[name].maxWaiting)

\* C35: Execute refuses a caller for waiting-queue exhaustion exactly when
\* MaxWaiting callers are already blocked waiting for a slot; the callers that
\* hold a slot and run their function do not count against the waiting cap.
C35_WaitingCapCountsBlocked == [][ExecuteStep]_vars

\* no call of Execute or ExecuteWithResult is in progress
Quiescent == \A c \in Callers : callers[c].pc \in {"idle", "done"}

\* C36: a caller that left the select of Execute because its context was
\* cancelled holds the context's error and its function was not run; and
\* whenever no call is in progress, after whatever successes, function errors,
\* refusals and cancellations, every bulkhead has no occupied slot and a
\* waiting count of zero.
C36_CancelledAndQuiescent ==
  /\ \A c \in Callers :
       /\ (callers[c].pc = "unwait" /\ callers[c].cancelled /\ ~callers[c].invoked)
            => callers[c].err = ErrCanceled
       /\ callers[c].err = ErrCanceled => ~callers[c].invoked
  /\ Quiescent
       => \A name \in DOMAIN bulkheads :
            bulkheads[name].semaphore = 0 /\ bulkheads[name].waiting = 0

\* nothing is in progress after one call failed in its function, one was
\* refused and one was cancelled while it waited for the slot
C36_Witness ==
  /\ Quiescent
  /\ {callers[c].err : c \in Callers} = {"PERSISTENCE_ERROR", ErrMaxWaiting, ErrCanceled}
  /\ \A name \in DOMAIN bulkheads :
       bulkheads[name].semaphore = 0 /\ bulkheads[name].waiting = 0

\* ------------------------------------------------------------------------
\* MergeCarts at the item limit: user carts of 98, 99 and 100 items and small
\* ones, guest carts that hold products the user cart does and does not hold
\* ------------------------------------------------------------------------
CapEnv ==
  [users |-> {"u1"}, guests |-> {"g1"}, mergers |-> {"u1"},
   products |-> {ProductName(MaxItemsPerCart + 2)},
   quantities |-> {MinQuantityPerItem}, prices |-> {7},
   updateQuantities |-> {}, maxOps |-> MaxCapOps, idle |-> DomIdle]

InitCap ==
  /\ \E userCart \in SeedCarts("u1", 1)
                        \cup {Filled("u1", 1, n) :
                                n \in (MaxItemsPerCart - 2)..MaxItemsPerCart},
        guestCart \in SeedCarts("g1", MaxItemsPerCart + 2)
                        \cup {GuestSeed("g1", MaxItemsPerCart + 2)} :
       store = [u \in {"u1", "g1"} |-> IF u = "u1" THEN userCart ELSE guestCart]
  /\ now = 1
  /\ proc = [p \in Procs |-> IdleProc]
  /\ ret = DomIdle
  /\ opsStarted = 0
  /\ written = {}
  /\ lastWrite = NoWriteRecord
  /\ adapter = "inmemory"
  /\ idemRecords = <<>>
  /\ idemDone = <<>>
  /\ idemLast = <<>>
  /\ InitAux

NextCap ==
  \/ DomMergeCarts(CapEnv)
  \/ DomAddItem(CapEnv)

SpecCap == InitCap /\ [][NextCap]_vars

\* the smaller of two numbers
Least(a, b) == IF a < b THEN a ELSE b

\* merged is userItems, each item kept in its place with at most its quantity
\* changed, followed by the first guest items of a product userItems lacks, in
\* guest order, as many as fit below the limit
MergedAsClaimed(userItems, guestItems, merged) ==
  LET Absent(item) == \A i \in 1..Len(userItems) : userItems[i].productID # item.productID
      new   == SelectSeq(guestItems, Absent)
      room  == IF Len(userItems) < 100 THEN 100 - Len(userItems) ELSE 0
  IN /\ Len(merged) = Len(userItems) + Least(Len(new), room)
     /\ \A i \in 1..Len(userItems) :
          merged[i] = [userItems[i] EXCEPT !.quantity = merged[i].quantity]
     /\ \A j \in 1..(Len(merged) - Len(userItems)) : merged[Len(userItems) + j] = new[j]

\* C37: MergeCarts(u, g) of two carts returns, without an error, a cart that
\* keeps every item of u in place, followed by the guest items whose product u
\* lacks, in guest order, as long as the cart has fewer than 100 items; the
\* others are dropped; and the cart has at most 100 items when u had.
C37_MergeAppendsBelowCap ==
  (ret.op = "MergeCarts" /\ ret.before # NilCart /\ ret.guest # NilCart)
    => /\ ret.res.code = "OK"
       /\ MergedAsClaimed(ret.before.items, ret.guest.items, ret.cart.items)
       /\ Len(ret.before.items) <= 100 => Len(ret.cart.items) <= 100

\* a cart of 99 items was merged with a guest cart of one product it holds
\* and two it lacks: the first of the two is the 100th item, the second is gone
C37_Witness ==
  /\ ret.op = "MergeCarts"
  /\ ret.before # NilCart /\ ret.guest # NilCart
  /\ Len(ret.before.items) = 99
  /\ Len(ret.guest.items) = 3
  /\ Len(ret.cart.items) = 100
  /\ ret.cart.items[100] = ret.guest.items[2]
  /\ \A i \in 1..100 : ret.cart.items[i].productID # ret.guest.items[3].productID

\* C38: a call of AddItem, UpdateItemQuantity, RemoveItem, ClearCart or
\* MergeGuestCart that returned an error has created no row, has replaced or
\* deleted none, and has handed no event to the publisher.
C38_ErrorChangesNothing ==
  (Returned /\ ret.op \in Mutations /\ ret.res.code # "OK")
    => /\ ~ret.created
       /\ ret.pv = 0
       /\ ret.pubs = <<>>

\* C39: under every configuration, MaxAttempts <= 0 included, Retry has
\* returned a nil error only if some invocation of the wrapped function
\* returned a nil error.
C39_NilOnlyAfterSuccess ==
  (retry.pc = "done" /\ retry.res = "nil")
    => \E i \in 1..Len(retry.calls) : retry.calls[i] = "nil"

\* ------------------------------------------------------------------------
\* The idempotency middleware under requests of several users: X-User-ID
\* absent or any string, Idempotency-Key any string
\* ------------------------------------------------------------------------
ScopeEnv ==
  [methods |-> {"POST"}, userHeaders |-> {"", "anonymous", "u1", "u1:k"},
   keys |-> {"x", "k:x"}, statuses |-> {201}, bodies |-> {"a", "b"},
   ttl |-> IdempotencyTTL, ticks |-> {}, maxTime |-> MaxIdemTime,
   maxOps |-> MaxScopeOps, idle |-> IdleReq]

NextScope ==
  \/ \E p \in Procs : IdempotencyBegin(p, ScopeEnv)
  \/ \E p \in Procs : IdempotencyFinish(p, ScopeEnv)

SpecScope == InitIdem /\ [][NextScope]_vars

\* the requests in flight and the one that completed in the last step
Requests == {proc[p] : p \in Procs} \cup {ret}

\* C40: two requests that differ in the pair of X-User-ID and Idempotency-Key
\* have different scoped keys, and a response that is replayed to a request
\* was stored for a request of the same user and key.
C40_ScopedKeyPerUser ==
  /\ \A r1, r2 \in Requests :
       (r1.op = "request" /\ r2.op = "request" /\ r1.scopedKey = r2.scopedKey)
         => r1.userID = r2.userID /\ r1.key = r2.key
  /\ (ret.op = "request" /\ ret.replayed) => <<ret.userID, ret.key>> \in DOMAIN idemDone

====
